---- MODULE Spec2Model ----
(***************************************************************************)
(* PICs_Manager: the task supervisor (internal/task/manager.go), and the   *)
(* scan pipeline (pkg/scanner: preprocessor, classifier, aggregator,       *)
(* ingestor, orchestrator).                                                *)
(*                                                                         *)
(* File and directory names are sequences of one-character strings, so     *)
(* that the regular expressions and string functions of the code are       *)
(* computed on the characters.  A path is a sequence of names.             *)
(***************************************************************************)
EXTENDS Integers, Sequences, FiniteSets, TLC

VARIABLES
    \* ---- task supervisor (internal/task/manager.go) ----
    tasks,      \* Manager.tasks: task id -> Task
    wpc,        \* position of the goroutine `go m.runScan(newTask)` of each task
    lastStart,  \* the value returned by the latest StartNewScanTask call
    alive,      \* FALSE once log.Fatalf has terminated the process
    reading,    \* HandleGetTaskStatus: the task it was given and the fields read so far
    \* ---- scan pipeline (pkg/scanner) ----
    fs,         \* the file system: path -> "dir" or the bytes of a file
    fs0,        \* the file system when the running stage was called
    pc,         \* position of the caller of the pipeline stages
    queue,      \* the task channel of the running worker pool
    hold,       \* what each worker of the pool took from the channel
    healthyFiles,   \* the list ProcessDirectory returned
    archiveMoved,   \* phase 2: movedSet
    archiveUnMoved, \* phase 2: unMovedSet
    groupMoved,     \* phase 3: movedSet
    groupUnMoved,   \* phase 3: unMovedSet
    changelog,      \* what AggregateAndArchive returned
    aggLog,         \* the conflict lines of aggregator.log
    nanos,          \* time.Now().UnixNano() as seen by groupMove
    run,            \* the number of RunFullScan calls made; the clock reads it
    classified,     \* what the classifier workers sent on the results channel
    series,         \* the series collection of the catalog: _id -> document
    images,         \* the images collection: <<seriesId, fileName>> -> document
    seriesCache,    \* Sync: the cache processAllSeries returned
    writesBatch,    \* processAllImages: the collector's writesBatch
    allOverwritten, \* processAllImages: the collector's allOverwritten
    \* ---- processAllImages, goroutine by goroutine ----
    imageResults,   \* the results channel of processAllImages
    producer,       \* the jobs the producer goroutine has still to send
    ipc,            \* position of the producer, the collector, the caller and the workers
    bulkWrites      \* the calls of Images().BulkWrite made: operations and outcome

taskVars == <<tasks, wpc, lastStart, alive, reading>>

aggVars == <<archiveMoved, archiveUnMoved, groupMoved, groupUnMoved, changelog, aggLog, nanos>>

pipeVars == <<fs, fs0, pc, queue, hold, healthyFiles, aggVars>>

imgVars == <<imageResults, producer, ipc, bulkWrites>>

scanVars == <<run, classified, series, images, seriesCache, writesBatch, allOverwritten, imgVars>>

vars == <<taskVars, pipeVars, scanVars>>

(***************************************************************************)
(* Bounds                                                                  *)
(***************************************************************************)
MaxTasks == 3       \* task ids handed out by uuid.New()
MaxCalls == 4       \* StartNewScanTask calls in one behaviour
NumWorkers == 2     \* numWorkers of every worker pool

(***************************************************************************)
(* Characters, names and paths                                             *)
(***************************************************************************)
UpperCase == <<"A","B","C","D","E","F","G","H","I","J","K","L","M",
               "N","O","P","Q","R","S","T","U","V","W","X","Y","Z">>
LowerCase == <<"a","b","c","d","e","f","g","h","i","j","k","l","m",
               "n","o","p","q","r","s","t","u","v","w","x","y","z">>
Digits    == <<"0","1","2","3","4","5","6","7","8","9">>

Range(q) == {q[i] : i \in DOMAIN q}

\* One character outside ASCII: U+4E2D, a CJK letter.
CJK == "<U+4E2D>"

\* The characters in the order of their code points.
CodeOrder ==
    <<" ", "#", "(", ")", ".">> \o Digits \o UpperCase \o <<"[", "]", "_">> \o LowerCase
        \o <<CJK>>

CharOrd(c) == CHOOSE i \in DOMAIN CodeOrder : CodeOrder[i] = c

IsDigit(c)  == c \in Range(Digits)
IsUpper(c)  == c \in Range(UpperCase)
IsLower(c)  == c \in Range(LowerCase)
\* unicode.IsLetter / unicode.IsNumber on the characters of the model
IsLetter(c) == IsUpper(c) \/ IsLower(c) \/ c = CJK
\* \w of Go's regexp: [0-9A-Za-z_]
IsWord(c)   == IsDigit(c) \/ IsUpper(c) \/ IsLower(c) \/ c = "_"
\* \s of Go's regexp, on the characters of the model
IsSpace(c)  == c = " "

\* unicode.ToLower / strings.ToLower, one character
ToLowerChar(c) ==
    IF IsUpper(c) THEN LowerCase[CHOOSE i \in DOMAIN UpperCase : UpperCase[i] = c] ELSE c
\* unicode.ToUpper, one character
ToUpperChar(c) ==
    IF IsLower(c) THEN UpperCase[CHOOSE i \in DOMAIN LowerCase : LowerCase[i] = c] ELSE c

ToLower(name) == [i \in DOMAIN name |-> ToLowerChar(name[i])]

\* strconv.Atoi on a string of digits
RECURSIVE Atoi(_)
Atoi(ds) ==
    IF ds = <<>> THEN 0
    ELSE 10 * Atoi(SubSeq(ds, 1, Len(ds) - 1))
           + (CHOOSE i \in DOMAIN Digits : Digits[i] = ds[Len(ds)]) - 1

\* fmt.Sprintf("%d", n) for 0 <= n < 100
Itoa(n) == IF n < 10 THEN <<Digits[n + 1]>> ELSE <<Digits[(n \div 10) + 1], Digits[(n % 10) + 1]>>

HasSuffix(name, suf) ==
    /\ Len(suf) <= Len(name)
    /\ SubSeq(name, Len(name) - Len(suf) + 1, Len(name)) = suf
TrimSuffix(name, suf) ==
    IF HasSuffix(name, suf) THEN SubSeq(name, 1, Len(name) - Len(suf)) ELSE name
IsPrefix(a, b) == Len(a) <= Len(b) /\ SubSeq(b, 1, Len(a)) = a

\* Byte-wise string order (sort.Strings, os.ReadDir, filepath.WalkDir).
RECURSIVE NameLess(_, _)
NameLess(a, b) ==
    IF a = <<>> THEN b # <<>>
    ELSE IF b = <<>> THEN FALSE
    ELSE IF a[1] = b[1] THEN NameLess(Tail(a), Tail(b))
    ELSE CharOrd(a[1]) < CharOrd(b[1])

\* The order in which filepath.WalkDir visits paths: directory entries in
\* name order, a directory before what it holds.
RECURSIVE PathLess(_, _)
PathLess(p, q) ==
    IF p = <<>> THEN q # <<>>
    ELSE IF q = <<>> THEN FALSE
    ELSE IF p[1] = q[1] THEN PathLess(Tail(p), Tail(q))
    ELSE NameLess(p[1], q[1])

\* The paths of a set in walk order.
RECURSIVE SortPaths(_)
SortPaths(S) ==
    IF S = {} THEN <<>>
    ELSE LET m == CHOOSE x \in S : \A y \in S \ {x} : PathLess(x, y)
         IN <<m>> \o SortPaths(S \ {m})

\* filepath.Base, filepath.Dir, filepath.Join on paths
Base(p) == p[Len(p)]
Dir(p)  == SubSeq(p, 1, Len(p) - 1)
Join(p, name) == Append(p, name)

(***************************************************************************)
(* The file system                                                         *)
(***************************************************************************)
DirNode == "dir"

Exists(f, p) == p \in DOMAIN f
IsDir(f, p)  == p \in DOMAIN f /\ f[p] = DirNode
IsFile(f, p) == p \in DOMAIN f /\ f[p] # DirNode

\* what lies strictly below p
Below(f, p) == {q \in DOMAIN f : Len(q) > Len(p) /\ IsPrefix(p, q)}
\* os.ReadDir: the entries of directory p, by name
Entries(f, p) == {q \in DOMAIN f : Len(q) = Len(p) + 1 /\ IsPrefix(p, q)}
ReadDir(f, p) == SortPaths(Entries(f, p))

\* filepath.WalkDir collecting the files (not the directories) under root
WalkFiles(f, root) == SortPaths({q \in DOMAIN f : IsPrefix(root, q) /\ f[q] # DirNode})

\* os.Remove: a file or an empty directory
RemoveOk(f, p) == Exists(f, p) /\ Below(f, p) = {}
Remove(f, p) == [q \in DOMAIN f \ {p} |-> f[q]]

\* os.RemoveAll
RemoveAll(f, p) == [q \in DOMAIN f \ ({p} \cup Below(f, p)) |-> f[q]]

\* os.MkdirAll: p and every missing parent become directories
MkdirAllOk(f, p) == \A i \in 1..Len(p) : ~IsFile(f, SubSeq(p, 1, i))
MkdirAll(f, p) ==
    LET new == {SubSeq(p, 1, i) : i \in 1..Len(p)} \ DOMAIN f
    IN [q \in DOMAIN f \cup new |-> IF q \in new THEN DirNode ELSE f[q]]

\* os.Rename (rename(2)): a file replaces an existing file, a directory
\* replaces an existing empty directory; the parent of dst must exist.
RenameOk(f, src, dst) ==
    /\ Exists(f, src)
    /\ IsDir(f, Dir(dst))
    /\ ~IsPrefix(src, dst)
    /\ Exists(f, dst) =>
          IF IsDir(f, src) THEN IsDir(f, dst) /\ Below(f, dst) = {}
                           ELSE IsFile(f, dst)
Rename(f, src, dst) ==
    LET moved == {src} \cup Below(f, src)
        to(q) == dst \o SubSeq(q, Len(src) + 1, Len(q))
        kept  == DOMAIN f \ (moved \cup {dst})
    IN [q \in kept \cup {to(m) : m \in moved} |->
           IF q \in kept THEN f[q]
           ELSE f[CHOOSE m \in moved : to(m) = q]]

(***************************************************************************)
(* File contents                                                           *)
(***************************************************************************)
\* The bytes of a file are a token.  image.Decode succeeds on the image
\* tokens and fails on the others.
ImageBytes   == {"img1", "img2"}
CorruptBytes == {"bad"}
Decodes(b) == b \in ImageBytes

\* hasher.CalculateSHA256FromBytes: equal exactly for equal bytes
SHA256(b) == <<"sha256", b>>

(***************************************************************************)
(* Preprocessor (defaultPreprocessor)                                      *)
(***************************************************************************)
maxRepairAttempts == 5

NoPath == <<>>

ScanRoot == << <<"scan">> >>

ExtJpg == <<".", "j", "p", "g">>
ExtPng == <<".", "p", "n", "g">>
ExtTxt == <<".", "t", "x", "t">>
ImageExts == {ExtJpg, <<".", "j", "p", "e", "g">>, ExtPng, <<".", "g", "i", "f">>}

\* the index of the last c in name, 0 when there is none
LastIndex(name, c) ==
    LET I == {i \in DOMAIN name : name[i] = c}
    IN IF I = {} THEN 0 ELSE CHOOSE i \in I : \A j \in I : j <= i

\* filepath.Ext
Ext(name) ==
    LET d == LastIndex(name, ".") IN IF d = 0 THEN <<>> ELSE SubSeq(name, d, Len(name))

isImageExtension(path) == ToLower(Ext(Base(path))) \in ImageExts

\* regexp `^(.*?)(?: \((\d+)\))?(\.\w+)$` on a file name: the extension is
\* what follows the last dot, and the lazy first group gives way to the
\* optional " (N)" whenever the stem ends in one.
ParseFileName(name) ==
    LET d    == LastIndex(name, ".")
        okE  == d > 0 /\ d < Len(name) /\ \A i \in (d + 1)..Len(name) : IsWord(name[i])
        stem == SubSeq(name, 1, d - 1)
        o    == LastIndex(stem, "(")
        okN  == /\ Len(stem) >= 4
                /\ stem[Len(stem)] = ")"
                /\ o >= 2
                /\ stem[o - 1] = " "
                /\ o + 1 <= Len(stem) - 1
                /\ \A i \in (o + 1)..(Len(stem) - 1) : IsDigit(stem[i])
    IN IF ~okE THEN [ok |-> FALSE, base |-> <<>>, num |-> <<>>, ext |-> <<>>]
       ELSE IF okN
            THEN [ok |-> TRUE, base |-> SubSeq(stem, 1, o - 2),
                  num |-> SubSeq(stem, o + 1, Len(stem) - 1),
                  ext |-> SubSeq(name, d, Len(name))]
            ELSE [ok |-> TRUE, base |-> stem, num |-> <<>>,
                  ext |-> SubSeq(name, d, Len(name))]

EmptyGroup == [basePath |-> NoPath, numberedFiles |-> <<>>]

\* the callback of scanAndGroupFiles applied to the walked files in order
RECURSIVE GroupFiles(_, _)
GroupFiles(files, groups) ==
    IF files = <<>> THEN groups
    ELSE
      LET path == Head(files)
          m    == ParseFileName(Base(path))
      IN IF ~isImageExtension(path) \/ ~m.ok THEN GroupFiles(Tail(files), groups)
         ELSE
           LET joined   == Join(Dir(path), m.base \o m.ext)
               groupKey == [i \in DOMAIN joined |-> ToLower(joined[i])]
               g0  == IF groupKey \in DOMAIN groups THEN groups[groupKey] ELSE EmptyGroup
               num == Atoi(m.num)
               g1  == IF m.num = <<>> THEN [g0 EXCEPT !.basePath = path]
                      ELSE IF num > 0
                           THEN [g0 EXCEPT !.numberedFiles =
                                    [n \in DOMAIN g0.numberedFiles \cup {num} |->
                                        IF n = num THEN path ELSE g0.numberedFiles[n]]]
                           ELSE g0
           IN GroupFiles(Tail(files),
                         [k \in DOMAIN groups \cup {groupKey} |->
                             IF k = groupKey THEN g1 ELSE groups[k]])

scanAndGroupFiles(f, rootDir) == GroupFiles(WalkFiles(f, rootDir), <<>>)

isImageFileDamaged(f, path) == ~IsFile(f, path) \/ ~Decodes(f[path])

\* fmt.Sprintf("%s (%d)%s", baseName, i, ext)
CandidateName(baseName, i, ext) == baseName \o <<" ", "(">> \o Itoa(i) \o <<")">> \o ext

\* the repaired base gets the candidate's bytes but the candidate stays
ExecuteRepair_mut(f, basePath, candidatePath) ==
    [q \in DOMAIN f \cup {basePath} |-> IF q = basePath THEN f[candidatePath] ELSE f[q]]

\* os.Remove(group.basePath) then os.Rename(candidatePath, group.basePath)
ExecuteRepair(f, basePath, candidatePath) ==
    IF Exists(f, basePath) /\ ~RemoveOk(f, basePath) THEN f
    ELSE LET f1 == IF Exists(f, basePath) THEN Remove(f, basePath) ELSE f
         IN IF RenameOk(f1, candidatePath, basePath)
            THEN Rename(f1, candidatePath, basePath) ELSE f1

\* the loop of findAndExecuteRepair from candidate number i on
RECURSIVE RepairFrom(_, _, _)
RepairFrom(f, group, i) ==
    IF i > maxRepairAttempts THEN f
    ELSE
      LET name     == Base(group.basePath)
          ext      == Ext(name)
          baseName == TrimSuffix(name, ext)
          candidatePath == Join(Dir(group.basePath), CandidateName(baseName, i, ext))
          foundInMap == \E n \in DOMAIN group.numberedFiles :
                            group.numberedFiles[n] = candidatePath
      IN IF ~foundInMap THEN f
         ELSE IF ~isImageFileDamaged(f, candidatePath)
              THEN ExecuteRepair(f, group.basePath, candidatePath)
              ELSE RepairFrom(f, group, i + 1)

\* after the repair every numbered file that still fails to decode is removed
findAndExecuteRepair_mut(f, group) ==
    LET f1  == RepairFrom(f, group, 1)
        bad == {v \in Range(group.numberedFiles) : IsFile(f1, v) /\ ~Decodes(f1[v])}
    IN [q \in DOMAIN f1 \ bad |-> f1[q]]

findAndExecuteRepair(f, group) == RepairFrom(f, group, 1)

\* every numbered file is removed, whatever its hash
Deduplicate_mut(f, group) ==
    LET dup == {group.numberedFiles[n] : n \in DOMAIN group.numberedFiles}
    IN [q \in DOMAIN f \ dup |-> f[q]]

\* reconciliationWorker, base healthy: every numbered file whose hash equals
\* the base's is removed
Deduplicate(f, group) ==
    LET baseHash == SHA256(f[group.basePath])
        dup == {group.numberedFiles[n] : n \in
                   {n \in DOMAIN group.numberedFiles :
                       /\ IsFile(f, group.numberedFiles[n])
                       /\ SHA256(f[group.numberedFiles[n]]) = baseHash}}
    IN [q \in DOMAIN f \ dup |-> f[q]]

\* the worker leaves every group as it is
Reconcile_mut(f, group) == f

\* the body of the loop of reconciliationWorker for one group
Reconcile(f, group) ==
    IF DOMAIN group.numberedFiles = {} THEN f
    ELSE IF group.basePath = NoPath THEN f
    ELSE IF isImageFileDamaged(f, group.basePath) THEN findAndExecuteRepair(f, group)
    ELSE Deduplicate(f, group)

\* The groups in the order of their keys; a Go map is ranged over in an
\* unspecified order, so the workers may receive them in any order.
GroupSeq(groups) ==
    LET keys == SortPaths(DOMAIN groups) IN [i \in DOMAIN keys |-> groups[keys[i]]]

RemoveAt(q, i) == SubSeq(q, 1, i - 1) \o SubSeq(q, i + 1, Len(q))

(***************************************************************************)
(* Worker pools                                                            *)
(***************************************************************************)
Workers == 1..NumWorkers

NoUnit == <<>>
AllIdle == \A w \in Workers : hold[w] = NoUnit
\* wg.Wait() returns: the channel is closed and drained, every worker is out
PoolDone == queue = <<>> /\ AllIdle

TaskIdle ==
    /\ tasks = <<>>
    /\ wpc = <<>>
    /\ lastStart = [n |-> 0, taskId |-> 0, err |-> ""]
    /\ alive = TRUE
    /\ reading = <<>>

AggIdle ==
    /\ archiveMoved = <<>>
    /\ archiveUnMoved = {}
    /\ groupMoved = <<>>
    /\ groupUnMoved = {}
    /\ changelog = <<>>
    /\ aggLog = {}
    /\ nanos = 0

PoolIdle ==
    /\ queue = <<>>
    /\ hold = [w \in Workers |-> NoUnit]

ImgIdle ==
    /\ imageResults = <<>>
    /\ producer = <<>>
    /\ ipc = <<>>
    /\ bulkWrites = <<>>

ScanIdle ==
    /\ run = 0
    /\ classified = <<>>
    /\ series = <<>>
    /\ images = <<>>
    /\ seriesCache = <<>>
    /\ writesBatch = <<>>
    /\ allOverwritten = {}
    /\ ImgIdle

(***************************************************************************)
(* ProcessDirectory                                                        *)
(***************************************************************************)
\* ProcessDirectory up to wg.Wait(): scanAndGroupFiles, the workers are
\* started and every group is sent on the task channel.
ProcessDirectoryCall ==
    /\ pc = "pre_call"
    /\ fs0' = fs
    /\ IF ~Exists(fs, ScanRoot)
       THEN /\ pc' = "pre_error"
            /\ UNCHANGED queue
       ELSE /\ pc' = "pre_wait"
            /\ queue' = GroupSeq(scanAndGroupFiles(fs, ScanRoot))
    /\ UNCHANGED <<fs, hold, healthyFiles, aggVars, taskVars, scanVars>>

\* reconciliationWorker: `for group := range tasks`
PreTake(w) ==
    /\ pc = "pre_wait"
    /\ hold[w] = NoUnit
    /\ \E i \in DOMAIN queue :
          /\ hold' = [hold EXCEPT ![w] = <<queue[i]>>]
          /\ queue' = RemoveAt(queue, i)
    /\ UNCHANGED <<fs, fs0, pc, healthyFiles, aggVars, taskVars, scanVars>>

\* the worker writes the tree it computes from the tree ProcessDirectory
\* was called on
PreReconcile_mut(w) ==
    /\ pc = "pre_wait"
    /\ hold[w] # NoUnit
    /\ fs' = Reconcile(fs0, hold[w][1])
    /\ hold' = [hold EXCEPT ![w] = NoUnit]
    /\ UNCHANGED <<fs0, pc, queue, healthyFiles, aggVars, taskVars, scanVars>>

\* reconciliationWorker: the loop body for the group taken
PreReconcile(w) ==
    /\ pc = "pre_wait"
    /\ hold[w] # NoUnit
    /\ fs' = Reconcile(fs, hold[w][1])
    /\ hold' = [hold EXCEPT ![w] = NoUnit]
    /\ UNCHANGED <<fs0, pc, queue, healthyFiles, aggVars, taskVars, scanVars>>

\* ProcessDirectory after wg.Wait(): the final walk
ProcessDirectoryReturn ==
    /\ pc = "pre_wait"
    /\ PoolDone
    /\ healthyFiles' = WalkFiles(fs, ScanRoot)
    /\ pc' = "pre_returned"
    /\ UNCHANGED <<fs, fs0, queue, hold, aggVars, taskVars, scanVars>>

\* ---- the trees ProcessDirectory is run on ----
Numbered(stem, n, ext) == stem \o <<" ", "(">> \o Itoa(n) \o <<")">> \o ext

StemA == <<"a">>
StemB == <<"b">>
Absent == "absent"

\* a.jpg and its first two variants: anything
PreFree   == {StemA \o ExtJpg, Numbered(StemA, 1, ExtJpg), Numbered(StemA, 2, ExtJpg)}
\* variants 3 to 5: corrupt when present
PreBad    == {Numbered(StemA, 3, ExtJpg), Numbered(StemA, 4, ExtJpg), Numbered(StemA, 5, ExtJpg)}
\* variant 6, beyond maxRepairAttempts: an image when present
PreBeyond == {Numbered(StemA, 6, ExtJpg)}

PreTree(cFree, cBad, cBeyond, cB, cB1) ==
    LET c == cFree @@ cBad @@ cBeyond
               @@ (StemB \o ExtPng :> cB) @@ (Numbered(StemB, 1, ExtPng) :> cB1)
               @@ (<<"n">> \o ExtTxt :> "txt")
        present == {n \in DOMAIN c : c[n] # Absent}
    IN [q \in {ScanRoot} \cup {Join(ScanRoot, n) : n \in present} |->
           IF q = ScanRoot THEN DirNode ELSE c[Base(q)]]

InitPre ==
    /\ \E cFree \in [PreFree -> {Absent} \cup ImageBytes \cup CorruptBytes],
          cBad \in [PreBad -> {Absent} \cup CorruptBytes],
          cBeyond \in [PreBeyond -> {Absent, "img2"}],
          cB \in {Absent, "img1", "bad"},
          cB1 \in {Absent, "img1"} :
             fs = PreTree(cFree, cBad, cBeyond, cB, cB1)
    /\ fs0 = fs
    /\ pc = "pre_call"
    /\ healthyFiles = <<>>
    /\ PoolIdle
    /\ AggIdle
    /\ TaskIdle
    /\ ScanIdle

NextPre ==
    \/ ProcessDirectoryCall
    \/ \E w \in Workers : PreTake(w)
    \/ \E w \in Workers : PreReconcile(w)
    \/ ProcessDirectoryReturn

SpecPre == InitPre /\ [][NextPre]_vars

\* ---- ProcessDirectory when os.Remove, os.Rename or the hashing of a file
\* may fail ----
\* any of the numbered files is removed, whatever its hash
DeduplicateOutcomes_mut(f, group) ==
    {[q \in DOMAIN f \ D |-> f[q]] : D \in SUBSET (Range(group.numberedFiles) \cap DOMAIN f)}

\* reconciliationWorker, base healthy: a numbered file whose hash equals the
\* base's is removed unless its hashing or its os.Remove fails; the hashing
\* of the base may fail too, then nothing is removed
DeduplicateOutcomes(f, group) ==
    LET baseHash == SHA256(f[group.basePath])
        dup == {group.numberedFiles[n] : n \in
                   {n \in DOMAIN group.numberedFiles :
                       /\ IsFile(f, group.numberedFiles[n])
                       /\ SHA256(f[group.numberedFiles[n]]) = baseHash}}
    IN {[q \in DOMAIN f \ D |-> f[q]] : D \in SUBSET dup}

\* os.Remove(group.basePath) fails: return; os.Rename fails after the
\* remove: return; or both succeed
ExecuteRepairOutcomes(f, basePath, candidatePath) ==
    LET f1 == IF Exists(f, basePath) THEN Remove(f, basePath) ELSE f
    IN {f, f1} \cup (IF RenameOk(f1, candidatePath, basePath)
                     THEN {Rename(f1, candidatePath, basePath)} ELSE {})

\* the loop of findAndExecuteRepair from candidate number i on
RECURSIVE RepairOutcomesFrom(_, _, _)
RepairOutcomesFrom(f, group, i) ==
    IF i > maxRepairAttempts THEN {f}
    ELSE
      LET name     == Base(group.basePath)
          ext      == Ext(name)
          baseName == TrimSuffix(name, ext)
          candidatePath == Join(Dir(group.basePath), CandidateName(baseName, i, ext))
          foundInMap == \E n \in DOMAIN group.numberedFiles :
                            group.numberedFiles[n] = candidatePath
      IN IF ~foundInMap THEN {f}
         ELSE IF ~isImageFileDamaged(f, candidatePath)
              THEN ExecuteRepairOutcomes(f, group.basePath, candidatePath)
              ELSE RepairOutcomesFrom(f, group, i + 1)

\* the body of the loop of reconciliationWorker for one group
ReconcileOutcomes(f, group) ==
    IF DOMAIN group.numberedFiles = {} THEN {f}
    ELSE IF group.basePath = NoPath THEN {f}
    ELSE IF isImageFileDamaged(f, group.basePath) THEN RepairOutcomesFrom(f, group, 1)
    ELSE DeduplicateOutcomes(f, group)

\* reconciliationWorker: the loop body for the group taken, each system
\* call succeeding or failing
PreReconcileFault(w) ==
    /\ pc = "pre_wait"
    /\ hold[w] # NoUnit
    /\ fs' \in ReconcileOutcomes(fs, hold[w][1])
    /\ hold' = [hold EXCEPT ![w] = NoUnit]
    /\ UNCHANGED <<fs0, pc, queue, healthyFiles, aggVars, taskVars, scanVars>>

NextPreFault ==
    \/ ProcessDirectoryCall
    \/ \E w \in Workers : PreTake(w)
    \/ \E w \in Workers : PreReconcileFault(w)
    \/ ProcessDirectoryReturn

SpecPreFault == InitPre /\ [][NextPreFault]_vars

(***************************************************************************)
(* Claims about the Preprocessor                                           *)
(***************************************************************************)
\* the file groups of the tree ProcessDirectory was called on
Groups0 == scanAndGroupFiles(fs0, ScanRoot)
GroupsWithBase0 == {g \in Range(Groups0) : g.basePath # NoPath}
Variants(g) == Range(g.numberedFiles)

\* C8: dedup: for every file group whose base file decodes, after
\* ProcessDirectory every numbered variant with the base's bytes is deleted,
\* every numbered variant with other bytes exists unchanged, and the base
\* exists unchanged.
C8_Dedup ==
    pc = "pre_returned" =>
      \A g \in GroupsWithBase0 :
         Decodes(fs0[g.basePath]) =>
            /\ Exists(fs, g.basePath)
            /\ fs[g.basePath] = fs0[g.basePath]
            /\ \A v \in Variants(g) :
                  IF fs0[v] = fs0[g.basePath]
                  THEN ~Exists(fs, v)
                  ELSE Exists(fs, v) /\ fs[v] = fs0[v]

\* ProcessDirectory has returned for a group with a decodable base, one
\* identical variant and one different variant.
C8_Witness ==
    /\ pc = "pre_returned"
    /\ \E g \in GroupsWithBase0 :
          /\ Decodes(fs0[g.basePath])
          /\ \E v \in Variants(g) : fs0[v] = fs0[g.basePath] /\ ~Exists(fs, v)
          /\ \E v \in Variants(g) : fs0[v] # fs0[g.basePath] /\ Exists(fs, v)

VariantPath(g, i) ==
    LET name == Base(g.basePath)
    IN Join(Dir(g.basePath), CandidateName(TrimSuffix(name, Ext(name)), i, Ext(name)))

\* variants 1..k are all in the group, those below k fail to decode and k
\* decodes
FirstHealthy(g, k) ==
    /\ \A i \in 1..k : VariantPath(g, i) \in Variants(g)
    /\ \A i \in 1..(k - 1) : ~Decodes(fs0[VariantPath(g, i)])
    /\ Decodes(fs0[VariantPath(g, k)])

C21_RepairLowestDecodable ==
    pc = "pre_returned" =>
      \A g \in GroupsWithBase0 :
         \A k \in 1..maxRepairAttempts :
            ( /\ ~Decodes(fs0[g.basePath])
              /\ VariantPath(g, k) \in Variants(g)
              /\ Decodes(fs0[VariantPath(g, k)])
              /\ \A i \in 1..(k - 1) :
                    VariantPath(g, i) \in Variants(g) => ~Decodes(fs0[VariantPath(g, i)]) )
            => /\ Exists(fs, g.basePath)
               /\ fs[g.basePath] = fs0[VariantPath(g, k)]
               /\ ~Exists(fs, VariantPath(g, k))

\* the files of a group: its base, if any, and its numbered files
GroupFilesOf(g) == Variants(g) \cup (IF g.basePath = NoPath THEN {} ELSE {g.basePath})
UnchangedIn(S) == \A q \in S : Exists(fs, q) /\ fs[q] = fs0[q]

\* C22: after ProcessDirectory, in a group whose base failed to decode
\* either the base holds the bytes of one variant, that variant's path is
\* gone and every other numbered variant is unchanged, or the whole group is
\* unchanged, which is so whenever no variant decodes; a group without
\* numbered variants or without a base is unchanged.
C22_RepairFrame ==
    pc = "pre_returned" =>
      \A g \in Range(Groups0) :
         /\ (Variants(g) = {} \/ g.basePath = NoPath) => UnchangedIn(GroupFilesOf(g))
         /\ (Variants(g) # {} /\ g.basePath # NoPath /\ ~Decodes(fs0[g.basePath])) =>
               /\ \/ UnchangedIn(GroupFilesOf(g))
                  \/ \E v \in Variants(g) :
                        /\ Decodes(fs0[v])
                        /\ Exists(fs, g.basePath)
                        /\ fs[g.basePath] = fs0[v]
                        /\ ~Exists(fs, v)
                        /\ UnchangedIn(Variants(g) \ {v})
               /\ (\A v \in Variants(g) : ~Decodes(fs0[v])) => UnchangedIn(GroupFilesOf(g))

\* ProcessDirectory has returned after a repair from variant 2 that left
\* the corrupt variant 1 and a further variant as they were.
C22_Witness ==
    /\ pc = "pre_returned"
    /\ \E g \in GroupsWithBase0 :
          /\ ~Decodes(fs0[g.basePath])
          /\ FirstHealthy(g, 2)
          /\ fs[g.basePath] = fs0[VariantPath(g, 2)]
          /\ Exists(fs, VariantPath(g, 1))
          /\ Cardinality(Variants(g)) >= 3
          /\ UnchangedIn(Variants(g) \ {VariantPath(g, 2)})

\* C23: the list ProcessDirectory returns holds no base file that the
\* Preprocessor found damaged and did not repair.
C23_ReturnsOnlyHealthy ==
    pc = "pre_returned" =>
      \A g \in GroupsWithBase0 :
         ( /\ Variants(g) # {}
           /\ ~Decodes(fs0[g.basePath])
           /\ Exists(fs, g.basePath)
           /\ ~Decodes(fs[g.basePath]) )
         => g.basePath \notin Range(healthyFiles)

\* the groups handled one after the other
RECURSIVE ReconcileAll(_, _)
ReconcileAll(f, groups) ==
    IF groups = <<>> THEN f ELSE ReconcileAll(Reconcile(f, Head(groups)), Tail(groups))

\* C24: whatever the order in which the workers take and handle the groups,
\* after ProcessDirectory the tree is the one a single worker handling the
\* groups one after the other produces from the initial tree, and the list
\* returned is the list of that tree's files.
C24_OrderIndependent ==
    pc = "pre_returned" =>
       /\ fs = ReconcileAll(fs0, GroupSeq(Groups0))
       /\ healthyFiles = WalkFiles(ReconcileAll(fs0, GroupSeq(Groups0)), ScanRoot)

\* ProcessDirectory has returned after two groups were changed, one by a
\* repair and one by a removal of a duplicate.
C24_Witness ==
    /\ pc = "pre_returned"
    /\ \E g, h \in GroupsWithBase0 :
          /\ g # h
          /\ ~Decodes(fs0[g.basePath]) /\ Decodes(fs[g.basePath])
          /\ Decodes(fs0[h.basePath])
          /\ \E v \in Variants(h) : ~Exists(fs, v)

\* the decodable contents of the files under the scan root
DecodableContents(f) ==
    {f[q] : q \in {q \in DOMAIN f : IsPrefix(ScanRoot, q) /\ IsFile(f, q) /\ Decodes(f[q])}}

\* C25: at every moment of ProcessDirectory, whichever removals, renames and
\* hashings fail, every decodable content that was under the scan root when
\* it was called is still the content of some file under the scan root.
C25_NoContentLost ==
    DecodableContents(fs0) \subseteq DecodableContents(fs)

\* ProcessDirectory has returned after a duplicate was removed, and after a
\* corrupt base was removed and the rename of its healthy variant failed.
C25_Witness ==
    /\ pc = "pre_returned"
    /\ \E g \in GroupsWithBase0 :
          /\ Decodes(fs0[g.basePath])
          /\ \E v \in Variants(g) : ~Exists(fs, v)
    /\ \E g \in GroupsWithBase0 :
          /\ ~Decodes(fs0[g.basePath])
          /\ ~Exists(fs, g.basePath)
          /\ \E v \in Variants(g) : Decodes(fs0[v]) /\ Exists(fs, v)

(***************************************************************************)
(* Aggregator (configBasedAggregator)                                      *)
(***************************************************************************)
aggSuffix    == <<"_", "a", "g", "g">>
archiveChars == UpperCase \o <<"#">>

StagingPath      == << <<"staging">> >>
FinalLibraryPath == << <<"library">> >>
QuarantinePath   == << <<"quarantine">> >>

\* what is at p and below it
Subtree(f, p) == [q \in ({p} \cup Below(f, p)) \cap DOMAIN f |-> f[q]]

RECURSIVE TrimLeftSet(_, _)
TrimLeftSet(s, cs) ==
    IF s # <<>> /\ Head(s) \in cs THEN TrimLeftSet(Tail(s), cs) ELSE s
RECURSIVE TrimRightSet(_, _)
TrimRightSet(s, cs) ==
    IF s # <<>> /\ s[Len(s)] \in cs
    THEN TrimRightSet(SubSeq(s, 1, Len(s) - 1), cs) ELSE s
\* strings.TrimSpace
TrimSpace(s) == TrimRightSet(TrimLeftSet(s, {" "}), {" "})

\* sanitizeName: the characters Windows forbids become spaces, then
\* TrimSpace, TrimRight(". "), TrimSpace
sanitizeName(name) ==
    LET bad == {"<", ">", ":", "\"", "/", "\\", "|", "?", "*"}
        replaced == [i \in DOMAIN name |-> IF name[i] \in bad THEN " " ELSE name[i]]
    IN TrimSpace(TrimRightSet(TrimSpace(replaced), {".", " "}))

\* unidecode.Unidecode: ASCII is kept, U+4E2D is transliterated "Zhong "
RECURSIVE Unidecode(_)
Unidecode(s) ==
    IF s = <<>> THEN <<>>
    ELSE (IF Head(s) = CJK THEN <<"Z", "h", "o", "n", "g", " ">> ELSE <<Head(s)>>)
           \o Unidecode(Tail(s))

findFirstAlphaNum(s) ==
    LET I == {i \in DOMAIN s : IsLetter(s[i]) \/ IsDigit(s[i])}
    IN IF I = {} THEN "#"
       ELSE ToUpperChar(s[CHOOSE i \in I : \A j \in I : i <= j])

\* every folder goes to the bucket "#"
archiveDirName_mut(folderName) == "#"

\* archiveWorker: the bucket of a staging folder
archiveDirName(folderName) ==
    LET firstChar == findFirstAlphaNum(Unidecode(folderName))
    IN IF IsUpper(firstChar) THEN firstChar ELSE "#"

\* ---- seriesGroupPatterns: the value of the named group "group", or the
\* ---- empty string when the rule does not match
\* `^\s*\(\d+\)\s*(?P<group>.*)`
RuleLeadingNumber(name) ==
    LET s1 == TrimLeftSet(name, {" "})
        C  == {i \in DOMAIN s1 : s1[i] = ")"}
        c  == IF C = {} THEN 0 ELSE CHOOSE i \in C : \A j \in C : i <= j
        ok == /\ s1 # <<>>
              /\ s1[1] = "("
              /\ c >= 3
              /\ \A i \in 2..(c - 1) : IsDigit(s1[i])
    IN IF ok THEN TrimLeftSet(SubSeq(s1, c + 1, Len(s1)), {" "}) ELSE <<>>

\* `^[...[(...](?P<group>.*?)[...)\]...]`, on the brackets of the model
RuleBrackets(name) ==
    LET C == {i \in DOMAIN name : i > 1 /\ name[i] \in {")", "]"}}
    IN IF name # <<>> /\ name[1] \in {"[", "("} /\ C # {}
       THEN SubSeq(name, 2, (CHOOSE i \in C : \A j \in C : i <= j) - 1)
       ELSE <<>>

\* `^(?P<group>.+?)\s*(\d+)$`: the shortest non-empty prefix followed by
\* spaces and digits up to the end
RuleTextNumber(name) ==
    LET tailOk(k) == \E d \in (k + 1)..Len(name) :
                        /\ \A i \in (k + 1)..(d - 1) : IsSpace(name[i])
                        /\ \A i \in d..Len(name) : IsDigit(name[i])
        K == {k \in 1..(Len(name) - 1) : tailOk(k)}
    IN IF K = {} THEN <<>>
       ELSE SubSeq(name, 1, CHOOSE k \in K : \A j \in K : k <= j)

\* groupSeries, for one folder: the first rule that gives a non-empty group
groupNameOf(folderName) ==
    LET baseName == TrimSuffix(folderName, aggSuffix)
    IN IF RuleLeadingNumber(baseName) # <<>> THEN RuleLeadingNumber(baseName)
       ELSE IF RuleBrackets(baseName) # <<>> THEN RuleBrackets(baseName)
       ELSE RuleTextNumber(baseName)

\* groupSeries: group name -> members, in the order of seriesPaths
groupSeries(seriesPaths) ==
    LET names == {groupNameOf(Base(seriesPaths[i])) : i \in DOMAIN seriesPaths} \ {<<>>}
    IN [g \in names |->
           SelectSeq(seriesPaths, LAMBDA sp : groupNameOf(Base(sp)) = g)]

\* ---- the moves, on the state the mutex `mu` protects ----
\* [f: the file system, moved: movedSet, unmoved: unMovedSet,
\*  log: the conflict lines logged, now: the clock]
\* a folder whose destination exists is recorded as unmoved and removed
\* from staging
archiveMove_mut(st, folderName) ==
    LET oldPath == Join(StagingPath, folderName)
        newPath == Join(Join(FinalLibraryPath, <<archiveDirName(folderName)>>), folderName)
    IN IF Exists(st.f, newPath)
       THEN [st EXCEPT !.unmoved = @ \cup {oldPath},
                       !.f = RemoveAll(@, oldPath),
                       !.log = @ \cup {[phase |-> 2, src |-> oldPath, dest |-> newPath]}]
       ELSE IF RenameOk(st.f, oldPath, newPath)
            THEN [st EXCEPT !.f = Rename(@, oldPath, newPath),
                            !.moved = (oldPath :> newPath) @@ @]
            ELSE [st EXCEPT !.unmoved = @ \cup {oldPath}]

\* archiveWorker, the locked section for one staging folder
archiveMove(st, folderName) ==
    LET oldPath == Join(StagingPath, folderName)
        newPath == Join(Join(FinalLibraryPath, <<archiveDirName(folderName)>>), folderName)
    IN IF Exists(st.f, newPath)
       THEN [st EXCEPT !.unmoved = @ \cup {oldPath},
                       !.log = @ \cup {[phase |-> 2, src |-> oldPath, dest |-> newPath]}]
       ELSE IF RenameOk(st.f, oldPath, newPath)
            THEN [st EXCEPT !.f = Rename(@, oldPath, newPath),
                            !.moved = (oldPath :> newPath) @@ @]
            ELSE [st EXCEPT !.unmoved = @ \cup {oldPath}]

\* a conflicting member is recorded as moved to the destination
groupMove_mut(st, src, dest) ==
    IF Exists(st.f, dest)
    THEN [st EXCEPT !.moved = (src :> dest) @@ @,
                    !.log = @ \cup {[phase |-> 3, src |-> src, dest |-> dest]}]
    ELSE IF RenameOk(st.f, src, dest)
         THEN [st EXCEPT !.f = Rename(@, src, dest), !.moved = (src :> dest) @@ @]
         ELSE [st EXCEPT !.unmoved = @ \cup {src}]

\* a conflicting member is recorded as unmoved and left in the bucket
groupMove_mut2(st, src, dest) ==
    IF Exists(st.f, dest)
    THEN [st EXCEPT !.unmoved = @ \cup {src},
                    !.log = @ \cup {[phase |-> 3, src |-> src, dest |-> dest]}]
    ELSE IF RenameOk(st.f, src, dest)
         THEN [st EXCEPT !.f = Rename(@, src, dest), !.moved = (src :> dest) @@ @]
         ELSE [st EXCEPT !.unmoved = @ \cup {src}]

\* groupMove; the quarantine name carries time.Now().UnixNano()
groupMove(st, src, dest) ==
    IF Exists(st.f, dest)
    THEN LET stamp == st.now + 1
             quarantineDest == Join(QuarantinePath, Base(src) \o <<"_">> \o Itoa(stamp))
         IN [st EXCEPT !.unmoved = @ \cup {src},
                       !.log = @ \cup {[phase |-> 3, src |-> src, dest |-> dest]},
                       !.now = stamp,
                       !.f = IF RenameOk(@, src, quarantineDest)
                             THEN Rename(@, src, quarantineDest) ELSE @]
    ELSE IF RenameOk(st.f, src, dest)
         THEN [st EXCEPT !.f = Rename(@, src, dest), !.moved = (src :> dest) @@ @]
         ELSE [st EXCEPT !.unmoved = @ \cup {src}]

\* aggregationWorker: `for _, memberPath := range nonAggMembers`
RECURSIVE MoveMembers(_, _, _)
MoveMembers(st, members, targetAggDir) ==
    IF members = <<>> THEN st
    ELSE MoveMembers(groupMove(st, Head(members), Join(targetAggDir, Base(Head(members)))),
                     Tail(members), targetAggDir)

\* aggregationWorker: the body of `for groupName, members := range groups`
\* for a group of two members or more
AggregateGroup(st, archivePath, groupName, members) ==
    LET aggI == {i \in DOMAIN members : HasSuffix(Base(members[i]), aggSuffix)}
        nonAggMembers == SelectSeq(members, LAMBDA m : ~HasSuffix(Base(m), aggSuffix))
        targetAggDir ==
            IF aggI # {} THEN members[CHOOSE i \in aggI : \A j \in aggI : j <= i]
            ELSE Join(archivePath, sanitizeName(groupName) \o aggSuffix)
    IN IF ~MkdirAllOk(st.f, targetAggDir) THEN st
       ELSE MoveMembers([st EXCEPT !.f = MkdirAll(@, targetAggDir)],
                        nonAggMembers, targetAggDir)

\* aggregationWorker up to the loop over the groups: the groups of two
\* members or more of one bucket
GroupsToAggregate(f, archivePath) ==
    LET seriesEntries == ReadDir(f, archivePath)
        seriesPaths   == SelectSeq(seriesEntries, LAMBDA e : IsDir(f, e))
        groups        == groupSeries(seriesPaths)
        big           == {g \in DOMAIN groups : Len(groups[g]) >= 2}
    IN IF Len(seriesEntries) < 2 \/ Len(seriesPaths) < 2 THEN <<>>
       ELSE [g \in big |-> groups[g]]

\* the changelog keeps the archive moves only
FinalChangelog_mut(am, gm, gum) == am

\* AggregateAndArchive, "final changelog": the maps are merged, groupMoved
\* written last, and the keys of archiveMoved that are in groupUnMoved are
\* deleted
FinalChangelog(am, gm, gum) ==
    LET finalChangelog == gm @@ am
        intersection   == {src \in DOMAIN am : src \in gum}
    IN [src \in DOMAIN finalChangelog \ intersection |-> finalChangelog[src]]

LibraryUnhealthy_mut(f) == FALSE

\* phase1_checkAndPrepareStructure: the error cases
LibraryUnhealthy(f) ==
    \/ ~MkdirAllOk(f, FinalLibraryPath)
    \/ \E e \in Entries(f, FinalLibraryPath) :
          LET name == Base(e)
          IN IF Len(name) = 1 /\ name[1] \in Range(archiveChars)
             THEN ~IsDir(f, e)
             ELSE /\ name[1] # "."
                  /\ ToLower(name) # <<"t", "h", "u", "m", "b", "s", ".", "d", "b">>

\* phase1_checkAndPrepareStructure: every bucket directory is created
RECURSIVE MkBuckets(_, _)
MkBuckets(f, i) ==
    IF i > Len(archiveChars) THEN f
    ELSE MkBuckets(MkdirAll(f, Join(FinalLibraryPath, <<archiveChars[i]>>)), i + 1)

\* AggregateAndArchive up to wg.Wait() of phase 2: phase 1, then the
\* directories of staging are sent on the task channel in ReadDir order.
AggregateAndArchiveCall ==
    /\ pc = "agg_call"
    /\ fs0' = fs
    /\ archiveMoved' = <<>>
    /\ archiveUnMoved' = {}
    /\ groupMoved' = <<>>
    /\ groupUnMoved' = {}
    /\ changelog' = <<>>
    /\ aggLog' = {}
    /\ IF LibraryUnhealthy(fs)
       THEN /\ fs' = IF MkdirAllOk(fs, FinalLibraryPath)
                     THEN MkdirAll(fs, FinalLibraryPath) ELSE fs
            /\ pc' = "agg_error"
            /\ UNCHANGED queue
       ELSE /\ fs' = MkBuckets(MkdirAll(fs, FinalLibraryPath), 1)
            /\ queue' = LET dirs == SelectSeq(ReadDir(fs, StagingPath),
                                              LAMBDA e : IsDir(fs, e))
                        IN [i \in DOMAIN dirs |-> Base(dirs[i])]
            /\ pc' = "agg_phase2"
    /\ UNCHANGED <<hold, healthyFiles, nanos, taskVars, scanVars>>

\* archiveWorker: `for folderName := range tasks`
ArchiveTake(w) ==
    /\ pc = "agg_phase2"
    /\ hold[w] = NoUnit
    /\ queue # <<>>
    /\ hold' = [hold EXCEPT ![w] = <<Head(queue)>>]
    /\ queue' = Tail(queue)
    /\ UNCHANGED <<fs, fs0, pc, healthyFiles, aggVars, taskVars, scanVars>>

\* archiveWorker: the loop body for the folder taken
ArchiveMove(w) ==
    /\ pc = "agg_phase2"
    /\ hold[w] # NoUnit
    /\ LET st == archiveMove([f |-> fs, moved |-> archiveMoved,
                              unmoved |-> archiveUnMoved, log |-> aggLog,
                              now |-> nanos], hold[w][1])
       IN /\ fs' = st.f
          /\ archiveMoved' = st.moved
          /\ archiveUnMoved' = st.unmoved
          /\ aggLog' = st.log
    /\ hold' = [hold EXCEPT ![w] = NoUnit]
    /\ UNCHANGED <<fs0, pc, queue, healthyFiles, groupMoved, groupUnMoved,
                   changelog, nanos, taskVars, scanVars>>

\* phase 2 returns and phase 3 sends the one-character directories of the
\* library on its task channel
Phase3Start ==
    /\ pc = "agg_phase2"
    /\ PoolDone
    /\ queue' = SelectSeq(ReadDir(fs, FinalLibraryPath),
                          LAMBDA e : IsDir(fs, e) /\ Len(Base(e)) = 1)
    /\ pc' = "agg_phase3"
    /\ UNCHANGED <<fs, fs0, hold, healthyFiles, aggVars, taskVars, scanVars>>

\* aggregationWorker: `for archivePath := range tasks`, the bucket is read
\* and its folders are grouped
AggTake(w) ==
    /\ pc = "agg_phase3"
    /\ hold[w] = NoUnit
    /\ queue # <<>>
    /\ LET groups == GroupsToAggregate(fs, Head(queue))
       IN hold' = [hold EXCEPT ![w] =
                      IF DOMAIN groups = {} THEN NoUnit
                      ELSE <<[archivePath |-> Head(queue), groups |-> groups]>>]
    /\ queue' = Tail(queue)
    /\ UNCHANGED <<fs, fs0, pc, healthyFiles, aggVars, taskVars, scanVars>>

\* aggregationWorker: one group of the bucket taken; a Go map is ranged
\* over in an unspecified order
AggGroup(w) ==
    /\ pc = "agg_phase3"
    /\ hold[w] # NoUnit
    /\ \E g \in DOMAIN hold[w][1].groups :
          LET unit == hold[w][1]
              st   == AggregateGroup([f |-> fs, moved |-> groupMoved,
                                      unmoved |-> groupUnMoved, log |-> aggLog,
                                      now |-> nanos],
                                     unit.archivePath, g, unit.groups[g])
              rest == [h \in DOMAIN unit.groups \ {g} |-> unit.groups[h]]
          IN /\ fs' = st.f
             /\ groupMoved' = st.moved
             /\ groupUnMoved' = st.unmoved
             /\ aggLog' = st.log
             /\ nanos' = st.now
             /\ hold' = [hold EXCEPT ![w] =
                            IF DOMAIN rest = {} THEN NoUnit
                            ELSE <<[unit EXCEPT !.groups = rest]>>]
    /\ UNCHANGED <<fs0, pc, queue, healthyFiles, archiveMoved, archiveUnMoved,
                   changelog, taskVars, scanVars>>

\* AggregateAndArchive after wg.Wait() of phase 3
AggregateAndArchiveReturn ==
    /\ pc = "agg_phase3"
    /\ PoolDone
    /\ changelog' = FinalChangelog(archiveMoved, groupMoved, groupUnMoved)
    /\ pc' = "agg_returned"
    /\ UNCHANGED <<fs, fs0, queue, hold, healthyFiles, archiveMoved, archiveUnMoved,
                   groupMoved, groupUnMoved, aggLog, nanos, taskVars, scanVars>>

\* ---- the trees AggregateAndArchive is run on ----
\* a tree holding the given files and directories
MkTree(files, dirs) ==
    LET D == UNION {{SubSeq(q, 1, i) : i \in 1..Len(q)} : q \in dirs}
               \cup UNION {{SubSeq(q, 1, i) : i \in 1..(Len(q) - 1)} : q \in DOMAIN files}
    IN [q \in D \cup DOMAIN files |-> IF q \in DOMAIN files THEN files[q] ELSE DirNode]

SeriesX1 == <<"X", " ", "1">>
SeriesX2 == <<"X", " ", "2">>
SeriesX3 == <<"X", " ", "3">>
SeriesY1 == <<"Y", " ", "1">>
SeriesY2 == <<"Y", " ", "2">>
AggX == <<"X">> \o aggSuffix
AggY == <<"Y">> \o aggSuffix
PageName == <<"p">> \o ExtJpg

AggStagingNames == {SeriesX1, SeriesX2, SeriesY1, SeriesY2}
\* series directories an earlier run left in the library
AggLibraryDirs ==
    { <<FinalLibraryPath[1], <<"X">>, SeriesX1>>,
      <<FinalLibraryPath[1], <<"X">>, SeriesX3>>,
      <<FinalLibraryPath[1], <<"X">>, AggX, SeriesX1>>,
      <<FinalLibraryPath[1], <<"Y">>, AggY, SeriesY2>> }

AggTree(S, L) ==
    LET sdirs == {Join(StagingPath, n) : n \in S}
    IN MkTree([q \in {Join(d, PageName) : d \in sdirs \cup L} |->
                  IF IsPrefix(StagingPath, q) THEN "img1" ELSE "img2"],
              {StagingPath, FinalLibraryPath, QuarantinePath})

\* what else the top level of the library may hold: nothing, a folder that
\* is no bucket, a file with the name of a bucket, a dotfile, Thumbs.db
AggStrays ==
    { <<>>,
      Join(FinalLibraryPath, <<"m", "i", "s", "c">>) :> DirNode,
      Join(FinalLibraryPath, <<"Q">>) :> "txt",
      Join(FinalLibraryPath, <<".", "k", "e", "e", "p">>) :> "txt",
      Join(FinalLibraryPath, <<"T", "h", "u", "m", "b", "s", ".", "d", "b">>) :> "txt" }

InitAgg ==
    /\ \E S \in SUBSET AggStagingNames, L \in SUBSET AggLibraryDirs, stray \in AggStrays :
          fs = stray @@ AggTree(S, L)
    /\ fs0 = fs
    /\ pc = "agg_call"
    /\ healthyFiles = <<>>
    /\ PoolIdle
    /\ AggIdle
    /\ TaskIdle
    /\ ScanIdle

NextAgg ==
    \/ AggregateAndArchiveCall
    \/ \E w \in Workers : ArchiveTake(w)
    \/ \E w \in Workers : ArchiveMove(w)
    \/ Phase3Start
    \/ \E w \in Workers : AggTake(w)
    \/ \E w \in Workers : AggGroup(w)
    \/ AggregateAndArchiveReturn

SpecAgg == InitAgg /\ [][NextAgg]_vars

\* ---- AggregateAndArchive on folder names of every kind ----
SeriesLower   == <<"x", " ", "1">>
SeriesDigit   == <<"1", " ", "a">>
SeriesCJK     == <<CJK, " ", "1">>
SeriesNoAlnum == <<"_", "_">>
SeriesBracket == <<"[", "a", "]", " ", "1">>
SeriesX11     == <<"X", " ", "1", " ", "1">>
AggX1         == SeriesX1 \o aggSuffix

ArcStagingNames == {SeriesLower, SeriesDigit, SeriesCJK, SeriesNoAlnum, SeriesBracket, SeriesX2}
\* what an earlier run left in the library: nothing, or the merge directory
\* of the collection "X 1" in the bucket X
ArcLibraries == { {}, {<<FinalLibraryPath[1], <<"X">>, AggX1, SeriesX11>>} }

InitArc ==
    /\ \E S \in SUBSET ArcStagingNames, L \in ArcLibraries : fs = AggTree(S, L)
    /\ fs0 = fs
    /\ pc = "agg_call"
    /\ healthyFiles = <<>>
    /\ PoolIdle
    /\ AggIdle
    /\ TaskIdle
    /\ ScanIdle

SpecArc == InitArc /\ [][NextAgg]_vars

(***************************************************************************)
(* Claims about the Aggregator                                             *)
(***************************************************************************)
\* source -> destination as a set of pairs
Pairs(m) == {<<src, m[src]>> : src \in DOMAIN m}

\* C5: conflict safety: in phase 2 and in phase 3 a move whose destination
\* already exists leaves what is at the destination unchanged and records
\* the source in the unmoved set of its phase; and no such source is a key
\* of the changelog AggregateAndArchive returns.
C5_ConflictSafety ==
    /\ [][ \A rec \in aggLog' \ aggLog :
              /\ Exists(fs, rec.dest)
              /\ Subtree(fs', rec.dest) = Subtree(fs, rec.dest)
              /\ rec.src \in (IF rec.phase = 2 THEN archiveUnMoved' ELSE groupUnMoved') ]_vars
    /\ [](pc = "agg_returned" => \A rec \in aggLog : rec.src \notin DOMAIN changelog)

\* AggregateAndArchive has returned after a conflict in phase 2 and a
\* conflict in phase 3.
C5_Witness ==
    /\ pc = "agg_returned"
    /\ \E rec \in aggLog : rec.phase = 2
    /\ \E rec \in aggLog : rec.phase = 3

\* C6: changelog algebra: the changelog returned equals (archiveMoved UNION
\* groupMoved) minus the entries whose source is in (archiveMoved INTERSECT
\* groupUnMoved), in whatever order the workers recorded their moves.
C6_ChangelogAlgebra ==
    pc = "agg_returned" =>
       Pairs(changelog) =
          (Pairs(archiveMoved) \cup Pairs(groupMoved))
             \ {e \in Pairs(archiveMoved) \cup Pairs(groupMoved) :
                   e[1] \in DOMAIN archiveMoved \cap groupUnMoved}

\* AggregateAndArchive has returned with moves of both phases recorded.
C6_Witness ==
    /\ pc = "agg_returned"
    /\ DOMAIN archiveMoved # {}
    /\ DOMAIN groupMoved # {}
    /\ groupUnMoved # {}

\* a top-level entry of the library that is no bucket, no dotfile and not
\* Thumbs.db, or a bucket name that is a file
StrayEntry(f) ==
    \E e \in Entries(f, FinalLibraryPath) :
       LET name == Base(e)
       IN \/ name \in {<<archiveChars[i]>> : i \in DOMAIN archiveChars} /\ IsFile(f, e)
          \/ /\ name \notin {<<archiveChars[i]>> : i \in DOMAIN archiveChars}
             /\ name[1] # "."
             /\ name # <<"T", "h", "u", "m", "b", "s", ".", "d", "b">>

C7_ConflictedArchiveRetracted ==
    pc = "agg_returned" =>
       \A src \in DOMAIN changelog :
          (src \in DOMAIN archiveMoved /\ changelog[src] = archiveMoved[src])
             => archiveMoved[src] \notin groupUnMoved

\* the bucket of a folder name: the first letter or digit of the
\* transliterated name, upper-cased, when that is A..Z, and # otherwise
BucketOf(name) ==
    LET t == Unidecode(name)
        I == {i \in DOMAIN t : IsLetter(t[i]) \/ IsDigit(t[i])}
        c == t[CHOOSE i \in I : \A j \in I : i <= j]
    IN IF I = {} THEN "#"
       ELSE IF ToUpperChar(c) \in Range(UpperCase) THEN ToUpperChar(c)
       ELSE "#"

BucketPaths == {Join(FinalLibraryPath, <<archiveChars[i]>>) : i \in DOMAIN archiveChars}

\* C26: every staging directory phase 2 moves is put at
\* <library>/<bucket>/<name>, the bucket being that of its name; no step of
\* the Aggregator adds a top-level entry to the library other than the 27
\* buckets; and when AggregateAndArchive has returned the structure check
\* of phase 1 passes.
C26_ArchivedUnderBucket ==
    /\ [][ /\ Entries(fs', FinalLibraryPath) \subseteq
                 Entries(fs, FinalLibraryPath) \cup BucketPaths
           /\ \A src \in DOMAIN archiveMoved' \ DOMAIN archiveMoved :
                 LET dest == Join(Join(FinalLibraryPath, <<BucketOf(Base(src))>>), Base(src))
                 IN /\ archiveMoved'[src] = dest
                    /\ Dir(dest) \in BucketPaths
                    /\ IsDir(fs', dest)
                    /\ ~Exists(fs', src) ]_vars
    /\ [](pc = "agg_returned" => ~LibraryUnhealthy(fs))

\* AggregateAndArchive has returned after archiving a name that begins
\* with a lower-case letter, one that begins with a digit, one that is
\* transliterated and one without a letter or digit.
C26_Witness ==
    /\ pc = "agg_returned"
    /\ {Join(StagingPath, SeriesLower), Join(StagingPath, SeriesDigit),
        Join(StagingPath, SeriesCJK), Join(StagingPath, SeriesNoAlnum)}
          \subseteq DOMAIN archiveMoved
    /\ archiveMoved[Join(StagingPath, SeriesCJK)]
          = <<FinalLibraryPath[1], <<"Z">>, SeriesCJK>>
    /\ archiveMoved[Join(StagingPath, SeriesNoAlnum)]
          = <<FinalLibraryPath[1], <<"#">>, SeriesNoAlnum>>

\* the directories of bucket b when phase 3 starts: those it held when
\* AggregateAndArchive was called and those phase 2 moved into it
Phase2Dirs(b) ==
    {e \in Entries(fs0, b) : IsDir(fs0, e)}
       \cup {archiveMoved[src] : src \in {src \in DOMAIN archiveMoved :
                                             Dir(archiveMoved[src]) = b}}

\* the member directories of collection g in bucket b
GroupMembers(b, g) == {m \in Phase2Dirs(b) : groupNameOf(Base(m)) = g}

\* what is below p, by its path relative to p
Content(f, p) == {<<SubSeq(q, Len(p) + 1, Len(q)), f[q]>> : q \in Below(f, p)}

\* C27: when AggregateAndArchive has returned, in every bucket every
\* directory that is no _agg directory and whose collection name had two
\* member directories or more in the bucket is at <bucket>/<group>_agg/<name>
\* and no longer in the bucket, or was quarantined; every directory whose
\* collection has one member, or that no rule matches, is where it was.
C27_GroupsMerged ==
    pc = "agg_returned" =>
       \A b \in BucketPaths : \A m \in Phase2Dirs(b) :
          LET g == groupNameOf(Base(m))
          IN IF g # <<>> /\ Cardinality(GroupMembers(b, g)) >= 2
             THEN ~HasSuffix(Base(m), aggSuffix) =>
                     /\ ~Exists(fs, m)
                     /\ \/ IsDir(fs, Join(Join(b, g \o aggSuffix), Base(m)))
                        \/ m \in groupUnMoved
             ELSE IsDir(fs, m)

\* C28: when a bucket held <G>_agg as AggregateAndArchive was called and
\* this run archived exactly one series whose collection name is G into the
\* bucket, a series <G>_agg did not hold yet, then on return the series is
\* at <bucket>/<G>_agg/<name> and no longer directly in the bucket.
C28_ExistingAggReused ==
    pc = "agg_returned" =>
       \A src \in DOMAIN archiveMoved :
          LET m      == archiveMoved[src]
              b      == Dir(m)
              g      == groupNameOf(Base(m))
              aggDir == Join(b, g \o aggSuffix)
              same   == {s \in DOMAIN archiveMoved :
                            /\ Dir(archiveMoved[s]) = b
                            /\ groupNameOf(Base(archiveMoved[s])) = g}
          IN ( /\ g # <<>>
               /\ IsDir(fs0, aggDir)
               /\ ~Exists(fs0, Join(aggDir, Base(m)))
               /\ same = {src} )
             => /\ IsDir(fs, Join(aggDir, Base(m)))
                /\ ~Exists(fs, m)

\* the members of the groups a worker has handled in this step
HandledMembers ==
    UNION { LET unit == hold[w][1]
                rest == IF hold'[w] = NoUnit THEN {} ELSE DOMAIN hold'[w][1].groups
            IN UNION {Range(unit.groups[g]) : g \in DOMAIN unit.groups \ rest} :
            w \in {w \in Workers : pc = "agg_phase3" /\ hold[w] # NoUnit /\ hold'[w] # hold[w]} }

\* C29: a step of phase 3 in which a member's place in the merge directory
\* is taken moves that member, as it is, to a new entry of the quarantine
\* directory and out of the bucket, leaves what is at that place unchanged
\* and records no move for the member; every other member of the group
\* that is no _agg directory is moved into the merge directory in the same
\* step; and the changelog returned has no entry for a quarantined member.
C29_CollisionQuarantinesOnly ==
    /\ [][ \A rec \in {r \in aggLog' \ aggLog : r.phase = 3} :
              /\ ~Exists(fs', rec.src)
              /\ \E q \in Entries(fs', QuarantinePath) \ Entries(fs, QuarantinePath) :
                    IsDir(fs', q) /\ Content(fs', q) = Content(fs, rec.src)
              /\ Subtree(fs', rec.dest) = Subtree(fs, rec.dest)
              /\ rec.src \notin DOMAIN groupMoved'
              /\ \A m \in HandledMembers :
                    (~HasSuffix(Base(m), aggSuffix) /\ m \notin groupUnMoved') =>
                       /\ m \in DOMAIN groupMoved'
                       /\ groupMoved'[m] = Join(Dir(rec.dest), Base(m))
                       /\ IsDir(fs', groupMoved'[m])
                       /\ Content(fs', groupMoved'[m]) = Content(fs, m)
                       /\ ~Exists(fs', m) ]_vars
    /\ [](pc = "agg_returned" =>
             \A rec \in {r \in aggLog : r.phase = 3} : rec.src \notin DOMAIN changelog)

\* AggregateAndArchive has returned after a group was merged of which one
\* member was quarantined and another moved into the merge directory.
C29_Witness ==
    /\ pc = "agg_returned"
    /\ \E rec \in {r \in aggLog : r.phase = 3} :
          /\ ~Exists(fs, rec.src)
          /\ \E q \in Entries(fs, QuarantinePath) : IsDir(fs, q)
          /\ \E m \in DOMAIN groupMoved :
                /\ Dir(groupMoved[m]) = Dir(rec.dest)
                /\ IsDir(fs, groupMoved[m])

\* what was in the directory at src before the Aggregator moved it
OriginContent(src) ==
    IF Exists(fs0, src) THEN Content(fs0, src)
    ELSE UNION {Content(fs0, s) : s \in {s \in DOMAIN archiveMoved : archiveMoved[s] = src}}

\* C30: for every entry src -> dest of the changelog AggregateAndArchive
\* returns, the directory that was at src is at dest when it returns.
C30_ChangelogFinalLocations ==
    pc = "agg_returned" =>
       \A src \in DOMAIN changelog :
          /\ IsDir(fs, changelog[src])
          /\ Content(fs, changelog[src]) = OriginContent(src)

IsDigits(s) == s # <<>> /\ \A i \in DOMAIN s : IsDigit(s[i])

\* Whether the whole of s matches the rest of a file pattern after its lazy
\* first group.  The tokens: "\\d+", "." (any character),
\* "(ext)?" for `(\.[a-zA-Z0-9_]+)?`, and literal characters.
RECURSIVE MatchTail(_, _)
MatchTail(toks, s) ==
    IF toks = <<>> THEN s = <<>>
    ELSE LET t == Head(toks)
             rest(k) == SubSeq(s, k + 1, Len(s))
         IN IF t = "\\d+"
            THEN \E k \in 1..Len(s) :
                    IsDigits(SubSeq(s, 1, k)) /\ MatchTail(Tail(toks), rest(k))
            ELSE IF t = "."
            THEN s # <<>> /\ MatchTail(Tail(toks), rest(1))
            ELSE IF t = "(ext)?"
            THEN \/ MatchTail(Tail(toks), s)
                 \/ /\ s # <<>>
                    /\ s[1] = "."
                    /\ \E k \in 2..Len(s) :
                          /\ \A i \in 2..k : IsWord(s[i])
                          /\ MatchTail(Tail(toks), rest(k))
            ELSE s # <<>> /\ s[1] = t /\ MatchTail(Tail(toks), rest(1))

\* filePatterns, each without its leading `^(.*?)` and its trailing `$`
filePatterns ==
    << <<"_", "\\d+", "_", "p", "\\d+", "_", "\\d+", "(ext)?">>,
       <<"_", "\\d+", "_", "p", "\\d+", "(ext)?">>,
       <<"_", "\\d+", "(ext)?">>,
       <<"_", "p", "g", "\\d+", "_", "\\d+", "(ext)?">>,
       <<"_", "\\d+", "_", "p", "\\d+", ".", "(ext)?">> >>

\* re.FindStringSubmatch(fileName)[1]: the lazy group takes the shortest
\* prefix after which the rest of the pattern matches
Submatch1(toks, fileName) ==
    LET K == {k \in 0..Len(fileName) :
                 MatchTail(toks, SubSeq(fileName, k + 1, Len(fileName)))}
    IN SubSeq(fileName, 1, CHOOSE k \in K : \A j \in K : k <= j)
Matches(toks, fileName) ==
    \E k \in 0..Len(fileName) : MatchTail(toks, SubSeq(fileName, k + 1, Len(fileName)))

\* the first character of the file name is taken for the series name
extractSeriesName_mut(fileName) ==
    IF fileName = <<>> THEN <<>> ELSE <<fileName[1]>>

\* extractSeriesName: the first pattern that matches decides
extractSeriesName(fileName) ==
    LET I == {i \in DOMAIN filePatterns : Matches(filePatterns[i], fileName)}
    IN IF I = {} THEN <<>>
       ELSE sanitizeName(Submatch1(filePatterns[CHOOSE i \in I : \A j \in I : i <= j],
                                   fileName))

\* ClassifyAndMove up to wg.Wait(): the files are sent on the task channel
ClassifyAndMoveCall ==
    /\ pc = "cls_call"
    /\ queue' = healthyFiles
    /\ classified' = <<>>
    /\ fs0' = fs
    /\ pc' = "cls_wait"
    /\ UNCHANGED <<fs, hold, healthyFiles, aggVars, taskVars,
                   run, series, images, seriesCache, writesBatch, allOverwritten, imgVars>>

\* regexClassifier.worker: `for filePath := range tasks`
ClsTake(w) ==
    /\ pc = "cls_wait"
    /\ hold[w] = NoUnit
    /\ queue # <<>>
    /\ hold' = [hold EXCEPT ![w] = <<Head(queue)>>]
    /\ queue' = Tail(queue)
    /\ UNCHANGED <<fs, fs0, pc, healthyFiles, aggVars, taskVars, scanVars>>

\* regexClassifier.worker: the loop body for the file taken
ClsMove(w) ==
    /\ pc = "cls_wait"
    /\ hold[w] # NoUnit
    /\ hold' = [hold EXCEPT ![w] = NoUnit]
    /\ LET filePath   == hold[w][1]
           fileName   == Base(filePath)
           seriesName == extractSeriesName(fileName)
           targetDir  == Join(StagingPath, seriesName)
           targetFile == Join(targetDir, fileName)
           fs1        == MkdirAll(fs, targetDir)
       IN IF seriesName = <<>> \/ ~MkdirAllOk(fs, targetDir)
          THEN UNCHANGED <<fs, classified>>
          ELSE IF ~RenameOk(fs1, filePath, targetFile)
          THEN fs' = fs1 /\ UNCHANGED classified
          ELSE /\ fs' = Rename(fs1, filePath, targetFile)
               /\ classified' = Append(classified,
                     [seriesName |-> seriesName, fileName |-> fileName])
    /\ UNCHANGED <<fs0, pc, queue, healthyFiles, aggVars, taskVars,
                   run, series, images, seriesCache, writesBatch, allOverwritten, imgVars>>

\* ClassifyAndMove returns once the channel is empty
ClassifyAndMoveReturn_mut ==
    /\ pc = "cls_wait"
    /\ queue = <<>>
    /\ pc' = "cls_returned"
    /\ UNCHANGED <<fs, fs0, queue, hold, healthyFiles, aggVars, taskVars, scanVars>>

\* ClassifyAndMove after wg.Wait()
ClassifyAndMoveReturn ==
    /\ pc = "cls_wait"
    /\ PoolDone
    /\ pc' = "cls_returned"
    /\ UNCHANGED <<fs, fs0, queue, hold, healthyFiles, aggVars, taskVars, scanVars>>

\* what ClassifyAndMove returns
\* the orders a Go map of the elements of S can be ranged over in
Orders(S) == {o \in [1..Cardinality(S) -> S] : Range(o) = S}

\* only the first result's series name is kept
uniqueSeriesNames_mut(results) ==
    IF results = <<>> THEN {} ELSE {results[1].seriesName}

\* ClassifyAndMove, `for res := range results`: the keys of the map
uniqueSeriesNames(results) == {results[i].seriesName : i \in DOMAIN results}

\* what ClassifyAndMove returns: finalSeriesNames, the keys of
\* uniqueSeriesNames in the order the map is ranged over, and
\* processedFileNames, one file name for every result
createdSeries == CHOOSE o \in Orders(uniqueSeriesNames(classified)) : TRUE
processedFileNames == [i \in DOMAIN classified |-> classified[i].fileName]

\* ---- the Classifier on its own: the file lists it is called with ----
SubDir   == <<"d">>
File111 == <<"X", " ", "1", " ", "1", "_", "1">> \o ExtJpg
File121 == <<"X", " ", "1", " ", "2", "_", "1">> \o ExtJpg
File21  == <<"X", " ", "2", "_", "1">> \o ExtJpg
File22  == <<"X", " ", "2", "_", "2">> \o ExtJpg
FileTxt == <<"n">> \o ExtTxt
FileX11  == <<"X", " ", "1", "_", "1">> \o ExtJpg
FileX12  == <<"X", " ", "1", "_", "2">> \o ExtJpg
FileXp   == <<"X", "_", "1", "_", "p", "2", "_", "3">> \o ExtJpg
SeriesX  == <<"X">>

\* what staging holds when ClassifyAndMove is called: nothing, a file that
\* has the name of a series, or a folder an earlier scan left behind
ClsStagings ==
    { <<>>,
      (Join(StagingPath, SeriesX2) :> "txt"),
      (Join(StagingPath, SeriesX1) :> DirNode)
         @@ (Join(Join(StagingPath, SeriesX1), FileX11) :> "bad") }

\* the scan root: two files named "X 1_1.jpg", one of them in a
\* subdirectory, further files of the series "X 1", "X 2" and "X", and a
\* file no pattern matches
ClsChoices ==
    [{1, 2, 3, 4, 5, 6} -> BOOLEAN]
ClsTree(c, staging) ==
    LET all == (Join(ScanRoot, FileX11) :> "img1")
                  @@ (Join(Join(ScanRoot, SubDir), FileX11) :> "img2")
                  @@ (Join(ScanRoot, FileX12) :> "img1")
                  @@ (Join(ScanRoot, File21) :> "img1")
                  @@ (Join(ScanRoot, FileXp) :> "img1")
                  @@ (Join(ScanRoot, FileTxt) :> "txt")
        order == <<Join(ScanRoot, FileX11), Join(Join(ScanRoot, SubDir), FileX11),
                   Join(ScanRoot, FileX12), Join(ScanRoot, File21),
                   Join(ScanRoot, FileXp), Join(ScanRoot, FileTxt)>>
        present == {order[i] : i \in {i \in DOMAIN order : c[i]}}
    IN staging @@ MkTree([q \in present |-> all[q]], {ScanRoot, StagingPath})

InitCls ==
    /\ \E c \in ClsChoices, staging \in ClsStagings : fs = ClsTree(c, staging)
    /\ fs0 = fs
    /\ pc = "cls_call"
    /\ healthyFiles = WalkFiles(fs, ScanRoot)
    /\ PoolIdle
    /\ AggIdle
    /\ TaskIdle
    /\ ScanIdle

NextCls ==
    \/ ClassifyAndMoveCall
    \/ \E w \in Workers : ClsTake(w)
    \/ \E w \in Workers : ClsMove(w)
    \/ ClassifyAndMoveReturn

SpecCls == InitCls /\ [][NextCls]_vars

(***************************************************************************)
(* Claims about the Classifier                                             *)
(***************************************************************************)
\* the series name the first matching pattern gives a file name: no
\* element if no pattern matches
PatternSeries(fileName) ==
    {sanitizeName(Submatch1(filePatterns[i], fileName)) :
        i \in {i \in DOMAIN filePatterns :
                  /\ Matches(filePatterns[i], fileName)
                  /\ \A j \in 1..(i - 1) : ~Matches(filePatterns[j], fileName)}} \ {<<>>}

\* where the Classifier puts a file
ClsTargets(filePath) ==
    {Join(Join(StagingPath, s), Base(filePath)) : s \in PatternSeries(Base(filePath))}

\* the input files that have left their source path
ClsMoved == {p \in Range(healthyFiles) : p \notin DOMAIN fs}

Occurrences(seq, x) == Cardinality({i \in DOMAIN seq : seq[i] = x})

\* C18: when ClassifyAndMove has returned, the series list holds every
\* series a file was moved to exactly once and nothing else; a file name is
\* in the file list once for every input file of that name that was moved,
\* and a moved file is at <destination>/<seriesName>/<fileName> with the
\* series name of the first matching pattern; a file that was not moved,
\* and so every file no pattern matches, is unchanged at its source path
\* and is not returned.
C18_ClassifyAndMoveReturns ==
    pc = "cls_returned" =>
       /\ \A i, j \in DOMAIN createdSeries : createdSeries[i] = createdSeries[j] => i = j
       /\ Range(createdSeries) = UNION {PatternSeries(Base(p)) : p \in ClsMoved}
       /\ Range(processedFileNames) \subseteq {Base(p) : p \in Range(healthyFiles)}
       /\ \A p \in Range(healthyFiles) :
             /\ Occurrences(processedFileNames, Base(p))
                   = Cardinality({m \in ClsMoved : Base(m) = Base(p)})
             /\ p \in ClsMoved =>
                   /\ ClsTargets(p) # {}
                   /\ \A t \in ClsTargets(p) :
                         /\ IsFile(fs, t)
                         /\ fs[t] \in {fs0[m] : m \in {m \in ClsMoved : Base(m) = Base(p)}}
             /\ p \notin ClsMoved => fs[p] = fs0[p]
             /\ PatternSeries(Base(p)) = {} =>
                   /\ p \notin ClsMoved
                   /\ Base(p) \notin Range(processedFileNames)

\* ClassifyAndMove has returned two series for three files moved, one of
\* them by the first of two patterns that match it, and has left the file
\* no pattern matches.
C18_Witness ==
    /\ pc = "cls_returned"
    /\ Len(createdSeries) >= 2
    /\ Len(processedFileNames) > Len(createdSeries)
    /\ Join(ScanRoot, FileXp) \in ClsMoved
    /\ IsFile(fs, Join(Join(StagingPath, SeriesX), FileXp))
    /\ IsFile(fs, Join(ScanRoot, FileTxt))

\* the places the files relocated so far by this call were put
RelocatedTargets ==
    {Join(Join(StagingPath, classified[i].seriesName), classified[i].fileName) :
        i \in DOMAIN classified}

\* C19: a worker that handles a file whose destination already holds a
\* file relocated by this call replaces nothing: the tree is as it was, the
\* later file is at its source path and no result is reported for it.
C19_CollisionIsSkip ==
    [][ \A w \in Workers :
           ( /\ pc = "cls_wait"
             /\ hold[w] # NoUnit
             /\ hold'[w] = NoUnit
             /\ ClsTargets(hold[w][1]) \cap RelocatedTargets # {} )
           => (fs' = fs /\ classified' = classified) ]_vars

(***************************************************************************)
(* Ingestor (mongoIngestor) and the catalog                                *)
(***************************************************************************)
BatchSize == 2      \* batchSize of the Ingestor

\* thumbnailer.CreateBase64 and the perceptual hash: decided by the bytes
Thumbnail(b) == <<"thumbnail", b>>
PHash(b) == <<"phash", b>>

\* primitive.NewObjectID(): an id no document of the collection has
NewObjectID(coll) == Cardinality(DOMAIN coll) + 1

\* the ids of the series documents the filter {name} matches
SeriesByName(ser, name) == {i \in DOMAIN ser : ser[i].name = name}

\* FindOne({name}): the document found
FindSeries(ser, name) ==
    ser[CHOOSE i \in SeriesByName(ser, name) : \A j \in SeriesByName(ser, name) : i <= j]

\* the write model is an insert whatever the collection holds
UpsertSeries_mut(ser, name, path, now) ==
    LET id == NewObjectID(ser)
    IN (id :> [id |-> id, name |-> name, path |-> path, imageCount |-> 0,
               thumbnail |-> <<>>, createdAt |-> now, updatedAt |-> now]) @@ ser

\* UpdateOne with upsert on {name}: $set path and updatedAt, $setOnInsert
\* _id, name, imageCount, createdAt.  idx_name_unique makes the upsert one
\* step for concurrent callers.
UpsertSeries(ser, name, path, now) ==
    LET hit == SeriesByName(ser, name)
    IN IF hit # {}
       THEN LET id == CHOOSE i \in hit : \A j \in hit : i <= j
            IN [ser EXCEPT ![id].path = path, ![id].updatedAt = now]
       ELSE LET id == NewObjectID(ser)
            IN (id :> [id |-> id, name |-> name, path |-> path, imageCount |-> 0,
                       thumbnail |-> <<>>, createdAt |-> now, updatedAt |-> now]) @@ ser

\* the ids of the image documents the filter {seriesId, fileName} matches
ImagesByKey(img, seriesId, fileName) ==
    {i \in DOMAIN img : img[i].seriesId = seriesId /\ img[i].fileName = fileName}

\* idx_filepath_unique: no other document holds the file path
FilePathFree(img, id, filePath) ==
    \A j \in DOMAIN img \ {id} : img[j].filePath # filePath

\* one image write model of imageWorker applied: upsert on
\* {seriesId, fileName}; a write the unique index on filePath refuses is
\* dropped
UpsertImage(img, m) ==
    LET hit == ImagesByKey(img, m.seriesId, m.fileName)
    IN IF hit # {}
       THEN LET id == CHOOSE i \in hit : \A j \in hit : i <= j
            IN IF ~FilePathFree(img, id, m.filePath) THEN img
               ELSE [img EXCEPT ![id].filePath = m.filePath, ![id].fileHash = m.fileHash,
                                ![id].perceptualHash = m.perceptualHash,
                                ![id].thumbnail = m.thumbnail, ![id].updatedAt = m.now]
       ELSE LET id == NewObjectID(img)
            IN IF ~FilePathFree(img, id, m.filePath) THEN img
               ELSE (id :> [id |-> id, seriesId |-> m.seriesId, fileName |-> m.fileName,
                            filePath |-> m.filePath, fileHash |-> m.fileHash,
                            perceptualHash |-> m.perceptualHash, thumbnail |-> m.thumbnail,
                            createdAt |-> m.now, updatedAt |-> m.now]) @@ img

\* imageStore.BulkWrite of a batch, unordered: every model is applied
RECURSIVE BulkWriteImages(_, _)
BulkWriteImages(img, batch) ==
    IF batch = {} THEN img
    ELSE LET m == CHOOSE x \in batch : TRUE
         IN BulkWriteImages(UpsertImage(img, m), batch \ {m})

\* every existing destination is a series, a merge directory too
collectFinalSeriesPaths_mut(f, log) ==
    {log[src] : src \in {x \in DOMAIN log : IsDir(f, log[x])}}

\* collectFinalSeriesPaths
collectFinalSeriesPaths(f, log) ==
    UNION { LET newPath == log[src]
            IN IF ~IsDir(f, newPath) THEN {}
               ELSE IF HasSuffix(Base(newPath), aggSuffix)
                    THEN {e \in Entries(f, newPath) : IsDir(f, e)}
                    ELSE {newPath}
            : src \in DOMAIN log }

SeriesNameOfPath(path) == TrimSuffix(Base(path), aggSuffix)

\* processAllSeries, the bulk upsert: the writes applied in the order given
RECURSIVE UpsertAllSeries(_, _, _)
UpsertAllSeries(ser, paths, now) ==
    IF paths = <<>> THEN ser
    ELSE UpsertAllSeries(UpsertSeries(ser, SeriesNameOfPath(Head(paths)), Head(paths), now),
                         Tail(paths), now)

\* processAllImages, the producer: the files of every cached series
RECURSIVE ImageJobs(_, _, _)
ImageJobs(f, paths, cache) ==
    IF paths = <<>> THEN <<>>
    ELSE LET seriesPath == Head(paths)
             files == SelectSeq(ReadDir(f, seriesPath), LAMBDA e : ~IsDir(f, e))
         IN (IF seriesPath \in DOMAIN cache
             THEN [i \in DOMAIN files |-> [filePath |-> files[i], series |-> cache[seriesPath]]]
             ELSE <<>>)
            \o ImageJobs(f, Tail(paths), cache)

\* Sync up to wg.Wait() of processAllImages: the series paths are resolved
\* from the changelog, the series are upserted and read back into the cache,
\* and the image jobs are sent on the jobs channel.
SyncCall ==
    /\ pc = "sync_call"
    /\ \E paths \in Orders(collectFinalSeriesPaths(fs, changelog)) :
          LET ser1 == UpsertAllSeries(series, paths, run)
              cache == [sp \in Range(paths) |->
                           [FindSeries(ser1, SeriesNameOfPath(sp)) EXCEPT !.path = sp]]
          IN /\ series' = ser1
             /\ seriesCache' = cache
             /\ queue' = ImageJobs(fs, paths, cache)
    /\ writesBatch' = <<>>
    /\ allOverwritten' = {}
    /\ fs0' = fs
    /\ pc' = "sync_images"
    /\ UNCHANGED <<fs, hold, healthyFiles, aggVars, taskVars,
                   run, classified, images, imgVars>>

\* imageWorker: `for job := range jobs`
ImageTake(w) ==
    /\ pc = "sync_images"
    /\ hold[w] = NoUnit
    /\ queue # <<>>
    /\ hold' = [hold EXCEPT ![w] = <<Head(queue)>>]
    /\ queue' = Tail(queue)
    /\ UNCHANGED <<fs, fs0, pc, healthyFiles, aggVars, taskVars, scanVars>>

DecodeFails_mut(bytes) == FALSE

\* imageWorker: `img, _, decodeErr := image.Decode(...)`, decodeErr != nil
DecodeFails(bytes) == ~Decodes(bytes)

\* imageWorker, the loop body for the job taken, and the collector taking
\* the result: a full batch is written at once
ImageWork(w) ==
    /\ pc = "sync_images"
    /\ hold[w] # NoUnit
    /\ hold' = [hold EXCEPT ![w] = NoUnit]
    /\ LET filePath == hold[w][1].filePath
           fileName == Base(filePath)
       IN IF ~IsFile(fs, filePath)
          THEN UNCHANGED <<fs, series, images, writesBatch, allOverwritten>>
          ELSE IF DecodeFails(fs[filePath])
          THEN /\ fs' = Remove(fs, filePath)
               /\ UNCHANGED <<series, images, writesBatch, allOverwritten>>
          ELSE LET name  == Base(Dir(filePath))
                   ser1  == UpsertSeries(series, name, filePath, run)
                   model == [seriesId |-> FindSeries(ser1, name).id, fileName |-> fileName,
                             filePath |-> filePath, fileHash |-> SHA256(fs[filePath]),
                             perceptualHash |-> PHash(fs[filePath]),
                             thumbnail |-> Thumbnail(fs[filePath]), now |-> run]
                   res   == [writeModel |-> model, overwrittenPath |-> NoPath]
                   batch == Append(writesBatch, res.writeModel)
               IN /\ series' = ser1
                  /\ allOverwritten' = IF res.overwrittenPath # NoPath
                                       THEN allOverwritten \cup {res.overwrittenPath}
                                       ELSE allOverwritten
                  /\ IF Len(batch) >= BatchSize
                     THEN images' = BulkWriteImages(images, Range(batch)) /\ writesBatch' = <<>>
                     ELSE writesBatch' = batch /\ UNCHANGED images
                  /\ UNCHANGED fs
    /\ UNCHANGED <<fs0, pc, queue, healthyFiles, aggVars, taskVars,
                   run, classified, seriesCache, imgVars>>

\* the cover is the image catalogued first
UpdateMetadata_mut(ser, img, cache, now) ==
    [id \in DOMAIN ser |->
        LET mine == {k \in DOMAIN img : img[k].seriesId = id}
        IN IF id \in {cache[sp].id : sp \in DOMAIN cache} /\ mine # {}
           THEN [ser[id] EXCEPT !.imageCount = Cardinality(mine),
                                !.thumbnail = img[CHOOSE k \in mine :
                                                    \A j \in mine : k <= j].thumbnail]
           ELSE ser[id]]

\* metadataUpdateWorker for every cached series and the bulk write of
\* updateAllSeriesMetadata: image count and cover are written where they
\* differ from the cached document
UpdateMetadata(ser, img, cache, now) ==
    LET changed(c) ==
            LET mine  == {k \in DOMAIN img : img[k].seriesId = c.id}
                count == Cardinality(mine)
                first == IF mine = {} THEN <<>>
                         ELSE img[CHOOSE k \in mine :
                                     \A j \in mine \ {k} :
                                        NameLess(img[k].fileName, img[j].fileName)].thumbnail
            IN [count |-> count, thumbnail |-> first,
                differs |-> c.imageCount # count \/ c.thumbnail # first]
        touched == {c.id : c \in {cache[sp] : sp \in DOMAIN cache}}
    IN [id \in DOMAIN ser |->
           IF id \in touched
           THEN LET c == CHOOSE c \in {cache[sp] : sp \in DOMAIN cache} : c.id = id
                    r == changed(c)
                IN IF r.differs
                   THEN [ser[id] EXCEPT !.imageCount = r.count, !.thumbnail = r.thumbnail,
                                        !.updatedAt = now]
                   ELSE ser[id]
           ELSE ser[id]]

\* Sync after wg.Wait() of processAllImages: the last batch is written and
\* the series metadata are recomputed
SyncReturn ==
    /\ pc = "sync_images"
    /\ PoolDone
    /\ LET img1 == BulkWriteImages(images, Range(writesBatch))
       IN /\ images' = img1
          /\ series' = UpdateMetadata(series, img1, seriesCache, run)
    /\ writesBatch' = <<>>
    /\ pc' = "sync_returned"
    /\ UNCHANGED <<fs, fs0, queue, hold, healthyFiles, aggVars, taskVars,
                   run, classified, seriesCache, allOverwritten, imgVars>>

\* ---- the archives and catalogs Sync is run on ----
\* where an earlier scan catalogued series "X 1", where the Aggregator has
\* now archived a folder of that name, and a series the catalog has not seen
SyncOld   == Join(Join(Join(FinalLibraryPath, <<"X">>), AggX), SeriesX1)
SyncNew   == Join(Join(FinalLibraryPath, <<"X">>), SeriesX1)
SyncOther == Join(Join(FinalLibraryPath, <<"Y">>), SeriesY1)
PageQ == <<"q">> \o ExtJpg

\* the catalog after an earlier Sync, at time 1, of SyncOld holding
\* PageName with the bytes "img1"
EarlierCatalog ==
    LET ser1  == UpsertSeries(<<>>, SeriesX1, SyncOld, 1)
        cache == (SyncOld :> [FindSeries(ser1, SeriesX1) EXCEPT !.path = SyncOld])
        file  == Join(SyncOld, PageName)
        ser2  == UpsertSeries(ser1, SeriesX1, file, 1)
        img   == UpsertImage(<<>>, [seriesId |-> FindSeries(ser2, SeriesX1).id,
                                    fileName |-> PageName, filePath |-> file,
                                    fileHash |-> SHA256("img1"),
                                    perceptualHash |-> PHash("img1"),
                                    thumbnail |-> Thumbnail("img1"), now |-> 1])
    IN [series |-> UpdateMetadata(ser2, img, cache, 1), images |-> img]

\* the changelogs the Aggregator may have returned for these folders
\* and a merge directory given as a destination
SyncAgg == Join(Join(FinalLibraryPath, <<"X">>), AggX)

SyncChangelogs ==
    { [src \in D |-> IF src = Join(StagingPath, SeriesX1) THEN SyncNew
                     ELSE IF src = Join(StagingPath, AggX) THEN SyncAgg
                     ELSE SyncOther] :
         D \in SUBSET {Join(StagingPath, SeriesX1), Join(StagingPath, SeriesY1),
                       Join(StagingPath, AggX)} }

SyncTree(prior, gone, log, bp, bq, by) ==
    LET all == (Join(SyncNew, PageName) :> bp) @@ (Join(SyncNew, PageQ) :> bq)
                  @@ (Join(SyncOther, PageName) :> by)
                  @@ (Join(SyncOld, PageName) :> IF prior THEN "img1" ELSE Absent)
                  @@ (Join(SyncAgg, PageQ) :> "txt")
        \* a destination the Aggregator has moved on is gone
        dirs == ({log[src] : src \in DOMAIN log} \ (IF gone THEN {SyncOther} ELSE {}))
                   \cup (IF prior THEN {SyncOld} ELSE {})
        present == {q \in DOMAIN all : all[q] # Absent /\ Dir(q) \in dirs}
    IN MkTree([q \in present |-> all[q]],
              dirs \cup {StagingPath, FinalLibraryPath, QuarantinePath})

InitSync ==
    /\ \E prior \in BOOLEAN, gone \in BOOLEAN, log \in SyncChangelogs,
          bp \in {Absent, "img1", "img2", "bad"}, bq \in {Absent, "img1", "bad"},
          by \in {Absent, "img1"} :
          /\ fs = SyncTree(prior, gone, log, bp, bq, by)
          /\ changelog = log
          /\ series = IF prior THEN EarlierCatalog.series ELSE <<>>
          /\ images = IF prior THEN EarlierCatalog.images ELSE <<>>
    /\ fs0 = fs
    /\ pc = "sync_call"
    /\ run = 2
    /\ healthyFiles = <<>>
    /\ classified = <<>>
    /\ seriesCache = <<>>
    /\ writesBatch = <<>>
    /\ allOverwritten = {}
    /\ ImgIdle
    /\ archiveMoved = <<>>
    /\ archiveUnMoved = {}
    /\ groupMoved = <<>>
    /\ groupUnMoved = {}
    /\ aggLog = {}
    /\ nanos = 0
    /\ PoolIdle
    /\ TaskIdle

NextSync ==
    \/ SyncCall
    \/ \E w \in Workers : ImageTake(w)
    \/ \E w \in Workers : ImageWork(w)
    \/ SyncReturn

SpecSync == InitSync /\ [][NextSync]_vars

(***************************************************************************)
(* processAllImages, goroutine by goroutine                                *)
(***************************************************************************)
\* make(chan imageJob, m.batchSize*m.numWorkers), and the same for results
ChanCap == BatchSize * NumWorkers

\* Images().BulkWrite of the collector's batch: the call is recorded with
\* its outcome; a call that fails has written nothing, and the error is
\* only logged
CollectorBulkWrite(batch, ok) ==
    /\ bulkWrites' = Append(bulkWrites, [ops |-> batch, ok |-> ok])
    /\ images' = IF ok THEN BulkWriteImages(images, Range(batch)) ELSE images

\* Sync up to the goroutines of processAllImages being started:
\* collectFinalSeriesPaths, processAllSeries (whose bulk write may fail:
\* Sync then returns the error), and the job list the producer will send
ProcessAllImagesCall ==
    /\ pc = "sync_call"
    /\ \E paths \in Orders(collectFinalSeriesPaths(fs, changelog)), ok \in BOOLEAN :
          LET ser1 == UpsertAllSeries(series, paths, run)
              cache == [sp \in Range(paths) |->
                           [FindSeries(ser1, SeriesNameOfPath(sp)) EXCEPT !.path = sp]]
          IN IF ok \/ paths = <<>>
             THEN /\ series' = ser1
                  /\ seriesCache' = cache
                  /\ producer' = ImageJobs(fs, paths, cache)
                  /\ ipc' = [producer |-> "send", collector |-> "range", main |-> "wait",
                             err |-> "", worker |-> [w \in Workers |-> "range"]]
                  /\ pc' = "img_run"
             ELSE /\ ipc' = [producer |-> "", collector |-> "", main |-> "",
                             err |-> "bulk write", worker |-> [w \in Workers |-> ""]]
                  /\ pc' = "sync_returned"
                  /\ UNCHANGED <<series, seriesCache, producer>>
    /\ fs0' = fs
    /\ UNCHANGED <<fs, queue, hold, healthyFiles, aggVars, taskVars, run, classified,
                   images, writesBatch, allOverwritten, imageResults, bulkWrites>>

\* the producer goroutine: `jobs <- imageJob{...}`, which waits while the
\* channel is full
ImgProduce ==
    /\ pc = "img_run"
    /\ ipc.producer = "send"
    /\ producer # <<>>
    /\ Len(queue) < ChanCap
    /\ queue' = Append(queue, Head(producer))
    /\ producer' = Tail(producer)
    /\ UNCHANGED <<fs, fs0, pc, hold, healthyFiles, aggVars, taskVars, run, classified,
                   series, images, seriesCache, writesBatch, allOverwritten,
                   imageResults, ipc, bulkWrites>>

\* the producer goroutine: close(jobs)
ImgCloseJobs ==
    /\ pc = "img_run"
    /\ ipc.producer = "send"
    /\ producer = <<>>
    /\ ipc' = [ipc EXCEPT !.producer = "closed"]
    /\ UNCHANGED <<fs, fs0, pc, queue, hold, healthyFiles, aggVars, taskVars, run,
                   classified, series, images, seriesCache, writesBatch, allOverwritten,
                   imageResults, producer, bulkWrites>>

\* imageWorker: `for job := range jobs` receives a job
ImgReceive(w) ==
    /\ pc = "img_run"
    /\ ipc.worker[w] = "range"
    /\ queue # <<>>
    /\ hold' = [hold EXCEPT ![w] = <<Head(queue)>>]
    /\ queue' = Tail(queue)
    /\ ipc' = [ipc EXCEPT !.worker[w] = "work"]
    /\ UNCHANGED <<fs, fs0, pc, healthyFiles, aggVars, taskVars, run, classified,
                   series, images, seriesCache, writesBatch, allOverwritten,
                   imageResults, producer, bulkWrites>>

\* imageWorker: the loop ends on the closed and drained channel; wg.Done()
ImgWorkerExit(w) ==
    /\ pc = "img_run"
    /\ ipc.worker[w] = "range"
    /\ queue = <<>>
    /\ ipc.producer = "closed"
    /\ ipc' = [ipc EXCEPT !.worker[w] = "exit"]
    /\ UNCHANGED <<fs, fs0, pc, queue, hold, healthyFiles, aggVars, taskVars, run,
                   classified, series, images, seriesCache, writesBatch, allOverwritten,
                   imageResults, producer, bulkWrites>>

\* imageWorker, the loop body up to the send: a file that cannot be read is
\* skipped, a file that does not decode is deleted and skipped, for any
\* other the series is found or created and the write model is built
ImgWork(w) ==
    /\ pc = "img_run"
    /\ ipc.worker[w] = "work"
    /\ LET filePath == hold[w][1].filePath
           fileName == Base(filePath)
       IN IF ~IsFile(fs, filePath)
          THEN /\ hold' = [hold EXCEPT ![w] = NoUnit]
               /\ ipc' = [ipc EXCEPT !.worker[w] = "range"]
               /\ UNCHANGED <<fs, series>>
          ELSE IF DecodeFails(fs[filePath])
          THEN /\ fs' = Remove(fs, filePath)
               /\ hold' = [hold EXCEPT ![w] = NoUnit]
               /\ ipc' = [ipc EXCEPT !.worker[w] = "range"]
               /\ UNCHANGED series
          ELSE LET name  == Base(Dir(filePath))
                   ser1  == UpsertSeries(series, name, filePath, run)
                   model == [seriesId |-> FindSeries(ser1, name).id, fileName |-> fileName,
                             filePath |-> filePath, fileHash |-> SHA256(fs[filePath]),
                             perceptualHash |-> PHash(fs[filePath]),
                             thumbnail |-> Thumbnail(fs[filePath]), now |-> run]
               IN /\ series' = ser1
                  /\ hold' = [hold EXCEPT ![w] = <<[writeModel |-> model,
                                                   overwrittenPath |-> NoPath]>>]
                  /\ ipc' = [ipc EXCEPT !.worker[w] = "send"]
                  /\ UNCHANGED fs
    /\ UNCHANGED <<fs0, pc, queue, healthyFiles, aggVars, taskVars, run, classified,
                   images, seriesCache, writesBatch, allOverwritten,
                   imageResults, producer, bulkWrites>>

\* imageWorker: `results <- imageResult{writeModel: model}`, which waits
\* while the channel is full
ImgSend(w) ==
    /\ pc = "img_run"
    /\ ipc.worker[w] = "send"
    /\ Len(imageResults) < ChanCap
    /\ imageResults' = Append(imageResults, hold[w][1])
    /\ hold' = [hold EXCEPT ![w] = NoUnit]
    /\ ipc' = [ipc EXCEPT !.worker[w] = "range"]
    /\ UNCHANGED <<fs, fs0, pc, queue, healthyFiles, aggVars, taskVars, run, classified,
                   series, images, seriesCache, writesBatch, allOverwritten,
                   producer, bulkWrites>>

\* the collector goroutine, one turn of `for res := range results`: the
\* write model joins the batch, and a batch of batchSize is written
ImgCollect ==
    /\ pc = "img_run"
    /\ ipc.collector = "range"
    /\ imageResults # <<>>
    /\ imageResults' = Tail(imageResults)
    /\ LET res   == Head(imageResults)
           batch == Append(writesBatch, res.writeModel)
       IN /\ allOverwritten' = IF res.overwrittenPath # NoPath
                               THEN allOverwritten \cup {res.overwrittenPath}
                               ELSE allOverwritten
          /\ IF Len(batch) >= BatchSize
             THEN /\ \E ok \in BOOLEAN : CollectorBulkWrite(batch, ok)
                  /\ writesBatch' = <<>>
             ELSE /\ writesBatch' = batch
                  /\ UNCHANGED <<images, bulkWrites>>
    /\ UNCHANGED <<fs, fs0, pc, queue, hold, healthyFiles, aggVars, taskVars, run,
                   classified, series, seriesCache, producer, ipc>>

\* processAllImages goes on to <-done without close(results)
ImgCloseResults_mut ==
    /\ pc = "img_run"
    /\ ipc.main = "wait"
    /\ \A w \in Workers : ipc.worker[w] = "exit"
    /\ ipc' = [ipc EXCEPT !.main = "receive"]
    /\ UNCHANGED <<fs, fs0, pc, queue, hold, healthyFiles, aggVars, taskVars, run,
                   classified, series, images, seriesCache, writesBatch, allOverwritten,
                   imageResults, producer, bulkWrites>>

\* processAllImages: wg.Wait() returns and close(results)
ImgCloseResults ==
    /\ pc = "img_run"
    /\ ipc.main = "wait"
    /\ \A w \in Workers : ipc.worker[w] = "exit"
    /\ ipc' = [ipc EXCEPT !.main = "closed"]
    /\ UNCHANGED <<fs, fs0, pc, queue, hold, healthyFiles, aggVars, taskVars, run,
                   classified, series, images, seriesCache, writesBatch, allOverwritten,
                   imageResults, producer, bulkWrites>>

\* the collector ends without writing what is left of the batch
ImgFlush_mut ==
    /\ pc = "img_run"
    /\ ipc.collector = "range"
    /\ imageResults = <<>>
    /\ ipc.main = "closed"
    /\ ipc' = [ipc EXCEPT !.collector = "done"]
    /\ UNCHANGED <<fs, fs0, pc, queue, hold, healthyFiles, aggVars, taskVars, run,
                   classified, series, images, seriesCache, writesBatch, allOverwritten,
                   imageResults, producer, bulkWrites>>

\* the collector goroutine after its loop, on the closed and drained
\* channel: what is left of the batch is written
ImgFlush ==
    /\ pc = "img_run"
    /\ ipc.collector = "range"
    /\ imageResults = <<>>
    /\ ipc.main = "closed"
    /\ IF Len(writesBatch) > 0
       THEN \E ok \in BOOLEAN : CollectorBulkWrite(writesBatch, ok)
       ELSE UNCHANGED <<images, bulkWrites>>
    /\ ipc' = [ipc EXCEPT !.collector = "done"]
    /\ UNCHANGED <<fs, fs0, pc, queue, hold, healthyFiles, aggVars, taskVars, run,
                   classified, series, seriesCache, writesBatch, allOverwritten,
                   imageResults, producer>>

\* `done <- struct{}{}` of the collector meets `<-done` of processAllImages,
\* which returns
ImgDone ==
    /\ pc = "img_run"
    /\ ipc.collector = "done"
    /\ ipc.main = "closed"
    /\ ipc' = [ipc EXCEPT !.collector = "exit", !.main = "returned"]
    /\ UNCHANGED <<fs, fs0, pc, queue, hold, healthyFiles, aggVars, taskVars, run,
                   classified, series, images, seriesCache, writesBatch, allOverwritten,
                   imageResults, producer, bulkWrites>>

\* Sync gives up on the metadata after a failed bulk write of images
ImgSyncReturn_mut ==
    /\ pc = "img_run"
    /\ ipc.main = "returned"
    /\ IF \A k \in DOMAIN bulkWrites : bulkWrites[k].ok
       THEN /\ series' = UpdateMetadata(series, images, seriesCache, run)
            /\ ipc' = [ipc EXCEPT !.main = "synced"]
       ELSE /\ series' = series
            /\ ipc' = [ipc EXCEPT !.main = "synced", !.err = "bulk write"]
    /\ pc' = "sync_returned"
    /\ UNCHANGED <<fs, fs0, queue, hold, healthyFiles, aggVars, taskVars, run,
                   classified, images, seriesCache, writesBatch, allOverwritten,
                   imageResults, producer, bulkWrites>>

\* Sync after processAllImages: updateAllSeriesMetadata, whose bulk write
\* may fail (the error is only logged), and `return overwrittenFiles, nil`
ImgSyncReturn ==
    /\ pc = "img_run"
    /\ ipc.main = "returned"
    /\ \E ok \in BOOLEAN :
          LET ser1 == UpdateMetadata(series, images, seriesCache, run)
          IN /\ series' = IF ok THEN ser1 ELSE series
             /\ ipc' = [ipc EXCEPT !.main = IF ok \/ ser1 = series THEN "synced"
                                            ELSE "metadata failed"]
    /\ pc' = "sync_returned"
    /\ UNCHANGED <<fs, fs0, queue, hold, healthyFiles, aggVars, taskVars, run,
                   classified, images, seriesCache, writesBatch, allOverwritten,
                   imageResults, producer, bulkWrites>>

\* ---- the series processAllImages is run on ----
ImgStems == <<"a", "b", "c", "d", "e">>
ImgFile(i) == Join(SyncOther, <<ImgStems[i]>> \o ExtJpg)

\* an earlier Sync, at time 1, catalogued the series with its first file
ImgEarlierCatalog ==
    LET ser1  == UpsertSeries(<<>>, SeriesY1, SyncOther, 1)
        cache == (SyncOther :> [FindSeries(ser1, SeriesY1) EXCEPT !.path = SyncOther])
        ser2  == UpsertSeries(ser1, SeriesY1, ImgFile(1), 1)
        img   == UpsertImage(<<>>, [seriesId |-> FindSeries(ser2, SeriesY1).id,
                                    fileName |-> Base(ImgFile(1)), filePath |-> ImgFile(1),
                                    fileHash |-> SHA256("img1"),
                                    perceptualHash |-> PHash("img1"),
                                    thumbnail |-> Thumbnail("img1"), now |-> 1])
    IN [series |-> UpdateMetadata(ser2, img, cache, 1), images |-> img]

\* n files, the first with bytes of its own, the files numbered in bad
\* corrupt
ImgTree(n, bad) ==
    MkTree([q \in {ImgFile(i) : i \in 1..n} |->
               LET i == CHOOSE i \in 1..n : ImgFile(i) = q
               IN IF i \in bad THEN "bad" ELSE IF i = 1 THEN "img2" ELSE "img1"],
           {SyncOther, StagingPath, FinalLibraryPath, QuarantinePath})

InitImg ==
    /\ \E n \in 0..Len(ImgStems), bad \in {{}, {1}, {2}, {1, 2}}, prior \in BOOLEAN :
          /\ fs = ImgTree(n, bad \cap (1..n))
          /\ series = IF prior THEN ImgEarlierCatalog.series ELSE <<>>
          /\ images = IF prior THEN ImgEarlierCatalog.images ELSE <<>>
    /\ changelog = (Join(StagingPath, SeriesY1) :> SyncOther)
    /\ fs0 = fs
    /\ pc = "sync_call"
    /\ run = 2
    /\ healthyFiles = <<>>
    /\ classified = <<>>
    /\ seriesCache = <<>>
    /\ writesBatch = <<>>
    /\ allOverwritten = {}
    /\ ImgIdle
    /\ archiveMoved = <<>>
    /\ archiveUnMoved = {}
    /\ groupMoved = <<>>
    /\ groupUnMoved = {}
    /\ aggLog = {}
    /\ nanos = 0
    /\ PoolIdle
    /\ TaskIdle

NextImg ==
    \/ ProcessAllImagesCall
    \/ ImgProduce
    \/ ImgCloseJobs
    \/ \E w \in Workers : ImgReceive(w)
    \/ \E w \in Workers : ImgWorkerExit(w)
    \/ \E w \in Workers : ImgWork(w)
    \/ \E w \in Workers : ImgSend(w)
    \/ ImgCollect
    \/ ImgCloseResults
    \/ ImgFlush
    \/ ImgDone
    \/ ImgSyncReturn

SpecImg == InitImg /\ [][NextImg]_vars

\* the Go scheduler lets every goroutine that can take a step take one: the
\* producer, each worker, the collector and the caller of processAllImages
InitImgFair ==
    /\ InitImg
    /\ series = <<>>
    /\ Cardinality({q \in DOMAIN fs : IsFile(fs, q)}) \in {0, Len(ImgStems)}

FairSpecImg ==
    /\ InitImgFair /\ [][NextImg]_vars
    /\ WF_vars(ImgProduce \/ ImgCloseJobs)
    /\ \A w \in Workers :
          WF_vars(ImgReceive(w) \/ ImgWorkerExit(w) \/ ImgWork(w) \/ ImgSend(w))
    /\ WF_vars(ImgCollect \/ ImgFlush)
    /\ WF_vars(ProcessAllImagesCall \/ ImgCloseResults \/ ImgDone \/ ImgSyncReturn)

(***************************************************************************)
(* Claims about the Ingestor                                               *)
(***************************************************************************)
\* C11: catalog uniqueness: no two series documents share a name and no two
\* image documents share (seriesId, fileName); no document is ever removed
\* or changes its key, and a document is only inserted for a name, or a
\* (seriesId, fileName), the catalog does not hold yet: ingesting a key that
\* is catalogued updates the document there is.
C11_CatalogUnique ==
    /\ [](/\ \A i, j \in DOMAIN series :
                series[i].name = series[j].name => i = j
          /\ \A i, j \in DOMAIN images :
                (images[i].seriesId = images[j].seriesId
                   /\ images[i].fileName = images[j].fileName) => i = j)
    /\ [][ /\ \A i \in DOMAIN series :
                i \in DOMAIN series' /\ series'[i].name = series[i].name
           /\ \A i \in DOMAIN series' \ DOMAIN series :
                SeriesByName(series, series'[i].name) = {}
           /\ \A i \in DOMAIN images :
                /\ i \in DOMAIN images'
                /\ images'[i].seriesId = images[i].seriesId
                /\ images'[i].fileName = images[i].fileName
           /\ \A i \in DOMAIN images' \ DOMAIN images :
                ImagesByKey(images, images'[i].seriesId, images'[i].fileName) = {} ]_vars

\* Sync has returned: the series and the image an earlier scan catalogued
\* have been written again, in place, and a new series was inserted beside.
C11_Witness ==
    /\ pc = "sync_returned"
    /\ \E i \in DOMAIN series :
          /\ series[i].name = SeriesX1
          /\ series[i].createdAt = 1
          /\ series[i].updatedAt = 2
          /\ \E k \in DOMAIN images :
                /\ images[k].seriesId = series[i].id
                /\ images[k].createdAt = 1
                /\ images[k].filePath = Join(SyncNew, PageName)
    /\ \E i \in DOMAIN series : series[i].name = SeriesY1

\* the files of the series paths Sync resolved, as they were when Sync was
\* called
SyncedFiles ==
    UNION {{e \in Entries(fs0, sp) : IsFile(fs0, e)} : sp \in DOMAIN seriesCache}

C13_OverwrittenReported ==
    [][ \A i \in DOMAIN images :
           (i \in DOMAIN images' /\ images'[i].fileHash # images[i].fileHash)
              => images'[i].filePath \in allOverwritten' ]_vars

\* the destinations of the changelog
Destinations == {changelog[src] : src \in DOMAIN changelog}

\* C32: Sync resolves series from the destinations of the changelog only:
\* once the series are resolved, a destination that is a directory whose
\* name ends in _agg has each of its immediate subdirectories among the
\* series and is not a series itself, any other destination that is a
\* directory is a series, every series is one of these, and Sync inserts a
\* series document only under the name of one of these.
C32_SeriesFromDestinations ==
    /\ [](pc \in {"sync_images", "sync_returned"} =>
            /\ \A d \in Destinations :
                  IF ~IsDir(fs0, d) THEN TRUE
                  ELSE IF HasSuffix(Base(d), aggSuffix)
                  THEN /\ d \notin DOMAIN seriesCache
                       /\ \A e \in Entries(fs0, d) :
                             IsDir(fs0, e) => e \in DOMAIN seriesCache
                  ELSE d \in DOMAIN seriesCache
            /\ \A sp \in DOMAIN seriesCache :
                  /\ IsDir(fs0, sp)
                  /\ \/ sp \in Destinations /\ ~HasSuffix(Base(sp), aggSuffix)
                     \/ Dir(sp) \in Destinations /\ HasSuffix(Base(Dir(sp)), aggSuffix))
    /\ [][ \A i \in DOMAIN series' \ DOMAIN series :
              \E sp \in DOMAIN seriesCache' :
                 series'[i].name = SeriesNameOfPath(sp) ]_vars

\* Sync has returned: a merge directory among the destinations gave its
\* subdirectory as a series, beside destinations that are series
\* themselves, and a series document was inserted.
C32_Witness ==
    /\ pc = "sync_returned"
    /\ SyncAgg \in Destinations
    /\ SyncOld \in DOMAIN seriesCache
    /\ SyncNew \in DOMAIN seriesCache
    /\ SyncOther \in DOMAIN seriesCache
    /\ IsFile(fs0, Join(SyncAgg, PageQ))
    /\ \E i \in DOMAIN series : series[i].createdAt = run

\* C33: after Sync has returned, the path of the series document of every
\* series resolved from the changelog is the directory of that series.
C33_SeriesPathIsDirectory ==
    pc = "sync_returned" =>
       \A sp \in DOMAIN seriesCache : series[seriesCache[sp].id].path = sp

\* the image documents of a series
ImagesOf(id) == {k \in DOMAIN images : images[k].seriesId = id}

\* every bulk write of the Sync succeeded
AllBulkWritesOk ==
    /\ ipc.err = ""
    /\ ipc.main = "synced"
    /\ \A k \in DOMAIN bulkWrites : bulkWrites[k].ok

\* the write models handed to Images().BulkWrite so far
Submitted == UNION {Range(bulkWrites[k].ops) : k \in DOMAIN bulkWrites}

\* C34: when Sync has returned and every bulk write succeeded, the stored
\* imageCount of every series of the cache is the number of image documents
\* with its seriesId and its thumbnail is that of the image document with
\* the least file name (none when there is no image); and the step that
\* recomputes the metadata is taken only when the collector has finished
\* and every decodable file of the resolved series has had its write model
\* handed to a bulk write.
C34_MetadataRecomputed ==
    /\ []((pc = "sync_returned" /\ AllBulkWritesOk) =>
            \A sp \in DOMAIN seriesCache :
               LET doc == series[seriesCache[sp].id]
               IN /\ doc.imageCount = Cardinality(ImagesOf(doc.id))
                  /\ IF ImagesOf(doc.id) = {} THEN doc.thumbnail = <<>>
                     ELSE \E k \in ImagesOf(doc.id) :
                             /\ doc.thumbnail = images[k].thumbnail
                             /\ \A j \in ImagesOf(doc.id) \ {k} :
                                   NameLess(images[k].fileName, images[j].fileName))
    /\ [][ (pc = "img_run" /\ pc' = "sync_returned") =>
              /\ ipc.collector = "exit"
              /\ imageResults = <<>>
              /\ \A q \in SyncedFiles :
                    Decodes(fs0[q]) => \E m \in Submitted : m.filePath = q ]_vars

\* Sync has returned, every bulk write succeeded, and the cover of a series
\* is of an image that was catalogued after another image of the series.
C34_Witness ==
    /\ pc = "sync_returned"
    /\ AllBulkWritesOk
    /\ Len(bulkWrites) >= 2
    /\ \E sp \in DOMAIN seriesCache :
          LET doc == series[seriesCache[sp].id]
          IN \E k, j \in ImagesOf(doc.id) :
                /\ j < k
                /\ doc.thumbnail = images[k].thumbnail
                /\ doc.thumbnail # images[j].thumbnail
                /\ doc.imageCount >= 3

\* processAllImages has returned
ImagesProcessed == pc \in {"img_run", "sync_returned"} /\ ipc.main \in {"returned", "synced", "metadata failed"}

\* the places <<call, position>> of the bulk writes an upsert of the file q
\* was submitted at
SubmittedAt(q) ==
    {<<k, i>> \in (DOMAIN bulkWrites) \X (1..BatchSize) :
        i \in DOMAIN bulkWrites[k].ops /\ bulkWrites[k].ops[i].filePath = q}

\* C35: within one Sync no bulk write of images carries more than batchSize
\* operations nor none, no upsert is submitted at two places, and when
\* processAllImages has returned the upsert of every file of a resolved
\* series that decodes has been submitted at exactly one place, the upserts
\* left over for the final partial batch too, and nothing else was
\* submitted.
C35_EveryUpsertSubmittedOnce ==
    /\ \A k \in DOMAIN bulkWrites :
          Len(bulkWrites[k].ops) >= 1 /\ Len(bulkWrites[k].ops) <= BatchSize
    /\ \A m \in Submitted : Cardinality(SubmittedAt(m.filePath)) = 1
    /\ ImagesProcessed =>
          /\ \A q \in SyncedFiles :
                Decodes(fs0[q]) => Cardinality(SubmittedAt(q)) = 1
          /\ \A m \in Submitted : m.filePath \in SyncedFiles /\ Decodes(fs0[m.filePath])

\* processAllImages has returned after a full batch and a final partial
\* batch.
C35_Witness ==
    /\ ImagesProcessed
    /\ Len(bulkWrites) >= 3
    /\ Len(bulkWrites[Len(bulkWrites)].ops) < BatchSize
    /\ Len(bulkWrites[1].ops) = BatchSize

\* C36: a failed bulk write of images does not abort ingestion, nor does a
\* file that fails to decode: whenever Sync has returned after
\* processAllImages made a bulk write, it returned without error, the upsert
\* of every decodable file of the resolved series was submitted (the batches
\* after a failed one too), every upsert of a bulk write that succeeded is
\* in the catalog, and unless the bulk write of the metadata itself failed
\* every series of the cache has the image count the catalog then holds.
C36_FailuresDoNotAbort ==
    (pc = "sync_returned" /\ bulkWrites # <<>>) =>
       /\ ipc.err = ""
       /\ ipc.main \in {"synced", "metadata failed"}
       /\ \A q \in SyncedFiles : Decodes(fs0[q]) => SubmittedAt(q) # {}
       /\ \A k \in DOMAIN bulkWrites :
             bulkWrites[k].ok =>
                \A m \in Range(bulkWrites[k].ops) :
                   \E j \in DOMAIN images :
                      images[j].filePath = m.filePath /\ images[j].fileHash = m.fileHash
       /\ ipc.main = "synced" =>
             \A sp \in DOMAIN seriesCache :
                series[seriesCache[sp].id].imageCount
                   = Cardinality(ImagesOf(seriesCache[sp].id))

\* Sync has returned: a file that did not decode was deleted, a bulk write
\* of images failed, a later one succeeded, and the metadata were
\* recomputed over the images that were written.
C36_Witness ==
    /\ pc = "sync_returned"
    /\ ipc.main = "synced"
    /\ \E q \in SyncedFiles : ~Decodes(fs0[q]) /\ ~Exists(fs, q)
    /\ \E k, j \in DOMAIN bulkWrites : k < j /\ ~bulkWrites[k].ok /\ bulkWrites[j].ok
    /\ \E sp \in DOMAIN seriesCache : series[seriesCache[sp].id].imageCount >= 2

\* C38: the image pipeline of the Ingestor terminates: whatever the files,
\* and whether bulk writes fail or not, every goroutine of processAllImages
\* gets to its end, the channels are drained, and Sync returns; and
\* processAllImages returns only after the collector is through with its
\* final flush.
C38_PipelineTerminates ==
    /\ <>(/\ pc = "sync_returned"
          /\ ipc.err = "" =>
                /\ ipc.producer = "closed"
                /\ \A w \in Workers : ipc.worker[w] = "exit"
                /\ ipc.collector = "exit"
                /\ queue = <<>> /\ imageResults = <<>> /\ producer = <<>>)
    /\ [][ (pc = "img_run" /\ ipc.main = "closed" /\ ipc'.main = "returned") =>
              ipc.collector = "done" ]_vars

\* the producer has closed the jobs channel, the results channel is full
\* and a worker waits to send on it
C38_Witness ==
    /\ pc = "img_run"
    /\ ipc.producer = "closed"
    /\ Len(imageResults) = ChanCap
    /\ \E w \in Workers : ipc.worker[w] = "send"

(***************************************************************************)
(* Orchestrator                                                            *)
(***************************************************************************)
MaxRuns == 2        \* RunFullScan calls on one Orchestrator

BackupPath == << <<"backup">> >>

\* NewOrchestrator: os.RemoveAll of the staging and the quarantine directory
NewOrchestrator(f) == RemoveAll(RemoveAll(f, StagingPath), QuarantinePath)

\* RunFullScan up to the call of ProcessDirectory: the working directories
\* are created
RunFullScanCall ==
    /\ pc = "scan_idle"
    /\ alive
    /\ run < MaxRuns
    /\ run' = run + 1
    /\ fs' = MkdirAll(MkdirAll(MkdirAll(MkdirAll(fs, StagingPath), FinalLibraryPath),
                               BackupPath), QuarantinePath)
    /\ pc' = "pre_call"
    /\ UNCHANGED <<fs0, queue, hold, healthyFiles, aggVars, tasks, wpc, lastStart, alive, reading,
                   classified, series, images, seriesCache, writesBatch, allOverwritten, imgVars>>

\* RunFullScan: ProcessDirectory returned an error, log.Fatalf ends the
\* process
RunFullScanFatal ==
    /\ pc = "pre_error"
    /\ alive' = FALSE
    /\ pc' = "fatal"
    /\ UNCHANGED <<fs, fs0, queue, hold, healthyFiles, aggVars, tasks, wpc, lastStart, reading,
                   scanVars>>

\* RunFullScan: ProcessDirectory returned the files; with none the scan
\* ends, else the Classifier is called
RunFullScanClassify ==
    /\ pc = "pre_returned"
    /\ pc' = IF healthyFiles = <<>> THEN "scan_idle" ELSE "cls_call"
    /\ UNCHANGED <<fs, fs0, queue, hold, healthyFiles, aggVars, taskVars, scanVars>>

\* RunFullScan: the Classifier returned, the Aggregator is called
RunFullScanAggregate ==
    /\ pc = "cls_returned"
    /\ pc' = "agg_call"
    /\ UNCHANGED <<fs, fs0, queue, hold, healthyFiles, aggVars, taskVars, scanVars>>

\* RunFullScan: the Aggregator returned, with a changelog or with an error
\* and no changelog; the Ingestor is called
RunFullScanSync ==
    /\ pc \in {"agg_returned", "agg_error"}
    /\ pc' = "sync_call"
    /\ UNCHANGED <<fs, fs0, queue, hold, healthyFiles, aggVars, taskVars, scanVars>>

\* RunFullScan returns after Sync
RunFullScanReturn ==
    /\ pc = "sync_returned"
    /\ pc' = "scan_idle"
    /\ UNCHANGED <<fs, fs0, queue, hold, healthyFiles, aggVars, taskVars, scanVars>>

\* ---- the scan roots RunFullScan is run on ----

\* the bytes each file of the scan root may hold
ScanChoices ==
    [{File111, File121, File21} -> {Absent, "img1"}]
ScanTree(c, c22, cTxt) ==
    LET all == c @@ (File22 :> c22) @@ (FileTxt :> cTxt)
        present == {n \in DOMAIN all : all[n] # Absent}
    IN MkTree([q \in {Join(ScanRoot, n) : n \in present} |-> all[Base(q)]], {ScanRoot})

\* what the library may hold before the first scan: nothing, or a folder at
\* its top level that is no bucket
ScanLibraries ==
    { <<>>,
      (FinalLibraryPath :> DirNode)
         @@ (Join(FinalLibraryPath, <<"m", "i", "s", "c">>) :> DirNode) }

\* a.jpg and "a (1).jpg" with the same bytes, and b_001.jpg
FileA   == <<"a">> \o ExtJpg
FileA1  == <<"a", " ", "(", "1", ")">> \o ExtJpg
FileB   == <<"b", "_", "0", "0", "1">> \o ExtJpg
SeriesB == <<"b">>
EndToEndTree ==
    MkTree((Join(ScanRoot, FileA) :> "img1") @@ (Join(ScanRoot, FileA1) :> "img1")
              @@ (Join(ScanRoot, FileB) :> "img2"),
           {ScanRoot})

InitScan ==
    /\ \/ \E c \in ScanChoices, c22 \in {Absent, "img2", "bad"}, cTxt \in {Absent, "txt"},
             lib \in ScanLibraries :
             fs = NewOrchestrator(lib @@ ScanTree(c, c22, cTxt))
       \/ fs = NewOrchestrator(EndToEndTree)
       \/ fs = NewOrchestrator(MkTree(<<>>, {FinalLibraryPath}))
    /\ fs0 = fs
    /\ pc = "scan_idle"
    /\ healthyFiles = <<>>
    /\ PoolIdle
    /\ AggIdle
    /\ TaskIdle
    /\ ScanIdle

NextScan ==
    \/ RunFullScanCall
    \/ ProcessDirectoryCall
    \/ \E w \in Workers : PreTake(w)
    \/ \E w \in Workers : PreReconcile(w)
    \/ ProcessDirectoryReturn
    \/ RunFullScanFatal
    \/ RunFullScanClassify
    \/ ClassifyAndMoveCall
    \/ \E w \in Workers : ClsTake(w)
    \/ \E w \in Workers : ClsMove(w)
    \/ ClassifyAndMoveReturn
    \/ RunFullScanAggregate
    \/ AggregateAndArchiveCall
    \/ \E w \in Workers : ArchiveTake(w)
    \/ \E w \in Workers : ArchiveMove(w)
    \/ Phase3Start
    \/ \E w \in Workers : AggTake(w)
    \/ \E w \in Workers : AggGroup(w)
    \/ AggregateAndArchiveReturn
    \/ RunFullScanSync
    \/ SyncCall
    \/ \E w \in Workers : ImageTake(w)
    \/ \E w \in Workers : ImageWork(w)
    \/ SyncReturn
    \/ RunFullScanReturn

SpecScan == InitScan /\ [][NextScan]_vars

(***************************************************************************)
(* Claims about the whole scan                                             *)
(***************************************************************************)
\* C15: a structural-fatal error of the Aggregator aborts the scan: once
\* AggregateAndArchive has returned the error, Sync is not called.
C15_AggregatorErrorAborts ==
    [][ pc = "agg_error" => pc' # "sync_call" ]_vars

ScanRootPaths(f) == {q \in DOMAIN f : IsPrefix(ScanRoot, q)}

\* C16 as stated: a full scan never creates, deletes, renames or modifies
\* a file under the scan root.
C16_ScanRootUntouched ==
    [][ [q \in ScanRootPaths(fs') |-> fs'[q]] = [q \in ScanRootPaths(fs) |-> fs[q]] ]_vars

\* a file name some classification pattern matches with a series name
MatchesSomePattern(fileName) ==
    \E i \in DOMAIN filePatterns :
       /\ Matches(filePatterns[i], fileName)
       /\ \A j \in 1..(i - 1) : ~Matches(filePatterns[j], fileName)
       /\ sanitizeName(Submatch1(filePatterns[i], fileName)) # <<>>

\* C16 amended: a full scan creates no file and no directory under the
\* scan root, and the only files under the scan root it deletes, moves or
\* rewrites are numbered variants "<base> (n)<ext>", image files that fail
\* to decode, and files whose name a classification pattern matches; every
\* other file under the scan root stays as it is.
C16_ScanRootOnlyTakenFrom ==
    [][ /\ ScanRootPaths(fs') \subseteq ScanRootPaths(fs)
        /\ \A q \in ScanRootPaths(fs) :
              (q \notin DOMAIN fs' \/ fs'[q] # fs[q]) =>
                 /\ IsFile(fs, q)
                 /\ \/ ParseFileName(Base(q)).num # <<>>
                    \/ isImageExtension(q) /\ ~Decodes(fs[q])
                    \/ MatchesSomePattern(Base(q)) ]_vars

\* A scan has returned: the duplicate variant was deleted, the file a
\* pattern matches was moved out, and the file no pattern matches is where
\* it was.
C16_Witness ==
    /\ pc = "scan_idle"
    /\ run = 1
    /\ ~Exists(fs, Join(ScanRoot, FileA1))
    /\ ~Exists(fs, Join(ScanRoot, FileB))
    /\ IsFile(fs, Join(ScanRoot, FileA))

\* C17: whenever RunFullScan begins its classification stage, staging
\* holds no entry left over from an earlier scan.
C17_StagingEmptyAtClassification ==
    pc = "cls_call" => Entries(fs, StagingPath) = {}

\* C20: end to end: from a scan root holding a.jpg, "a (1).jpg" with the
\* same bytes and b_001.jpg, one full scan ends with a catalog of exactly
\* one series, named b, holding exactly one image, b_001.jpg; "a (1).jpg"
\* is deleted; a.jpg is still in the scan root and has no image document.
C20_EndToEnd ==
    (fs = NewOrchestrator(EndToEndTree)) =>
       [](pc = "scan_idle" /\ run = 1 =>
            /\ Cardinality(DOMAIN series) = 1
            /\ \A i \in DOMAIN series :
                  /\ series[i].name = SeriesB
                  /\ series[i].imageCount = 1
                  /\ Cardinality(DOMAIN images) = 1
                  /\ \A k \in DOMAIN images :
                        /\ images[k].seriesId = series[i].id
                        /\ images[k].fileName = FileB
                        /\ IsFile(fs, images[k].filePath)
                        /\ fs[images[k].filePath] = "img2"
            /\ ~Exists(fs, Join(ScanRoot, FileA1))
            /\ IsFile(fs, Join(ScanRoot, FileA))
            /\ fs[Join(ScanRoot, FileA)] = "img1"
            /\ \A q \in DOMAIN fs : Base(q) = FileA => q = Join(ScanRoot, FileA))

\* The first scan of that scan root has returned with series b catalogued.
C20_Witness ==
    /\ pc = "scan_idle"
    /\ run = 1
    /\ IsFile(fs, Join(ScanRoot, FileA))
    /\ \E i \in DOMAIN series : series[i].name = SeriesB

\* C10: idempotence: once a full scan has completed, a further run of the
\* pipeline over the same scan root, no file having been added, inserts,
\* removes and modifies no series document and no image document.
C10_SecondRunChangesNothing ==
    [][ run >= 2 => (series' = series /\ images' = images) ]_vars

\* a pooled stage is running: the groups of the Preprocessor, the files of
\* the Classifier, the folders of phase 2 or the buckets of phase 3
PoolStage == pc \in {"pre_wait", "cls_wait", "agg_phase2", "agg_phase3"}

\* worker w is the only worker whose unit changes in the step
OnlyWorker(w) == \A v \in Workers \ {w} : hold'[v] = hold[v]

\* C37: in every pooled stage a unit leaves the channel to exactly one
\* worker that holds no unit, a unit held changes only by its worker
\* finishing it, no two workers hold the same unit, and the stage ends (the
\* call returns, or phase 2 gives way to phase 3) only when the channel is
\* empty and no worker holds a unit.
C37_PooledUnitsOnce ==
    /\ [](PoolStage =>
            \A v, w \in Workers : (v # w /\ hold[v] # NoUnit) => hold[v] # hold[w])
    /\ [][ PoolStage =>
             /\ (pc' = pc /\ queue' # queue) =>
                   \E i \in DOMAIN queue, w \in Workers :
                      /\ queue' = RemoveAt(queue, i)
                      /\ hold[w] = NoUnit
                      /\ OnlyWorker(w)
                      /\ IF pc = "agg_phase3"
                         THEN hold'[w] = NoUnit \/ hold'[w][1].archivePath = queue[i]
                         ELSE hold'[w] = <<queue[i]>>
             /\ (pc' = pc /\ queue' = queue) =>
                   \A w \in Workers :
                      hold'[w] # hold[w] =>
                         hold[w] # NoUnit /\ hold'[w] = NoUnit /\ OnlyWorker(w)
             /\ pc' # pc => queue = <<>> /\ AllIdle ]_vars

\* a pooled stage with a unit waiting in the channel while every worker
\* holds a unit
C37_Witness ==
    /\ PoolStage
    /\ queue # <<>>
    /\ \A w \in Workers : hold[w] # NoUnit

(***************************************************************************)
(* Task supervisor                                                         *)
(***************************************************************************)
StatusPending   == "pending"
StatusRunning   == "running"
StatusCompleted == "completed"
StatusFailed    == "failed"

TaskIds == 1..MaxTasks

\* The scan roots a client may post: one that exists and one that does not.
ScanPaths == {"src", "missing"}

\* filepath.WalkDir on a root that does not exist hands the Lstat error to
\* the callback, scanAndGroupFiles returns it and ProcessDirectory fails.
ProcessDirectoryFails(path) == path = "missing"

NewTask(path) ==
    [status |-> StatusPending, progress |-> 0, error |-> "",
     hasEndTime |-> FALSE, scanPath |-> path]

RunningTaskIds_mut(ts) == {}

\* for _, task := range m.tasks { if task.Status == StatusRunning ... }
RunningTaskIds(ts) == {t \in DOMAIN ts : ts[t].status = StatusRunning}

\* StartNewScanTask, the whole call under m.mu.
StartNewScanTask(path) ==
    /\ alive
    /\ lastStart.n < MaxCalls
    /\ IF RunningTaskIds(tasks) # {}
       THEN /\ lastStart' = [n |-> lastStart.n + 1, taskId |-> 0, err |-> "conflict"]
            /\ UNCHANGED <<tasks, wpc>>
       ELSE /\ Cardinality(DOMAIN tasks) < MaxTasks
            /\ LET taskID == Cardinality(DOMAIN tasks) + 1 IN
               /\ tasks' = [t \in DOMAIN tasks \cup {taskID} |->
                               IF t = taskID THEN NewTask(path) ELSE tasks[t]]
               /\ wpc' = [t \in DOMAIN wpc \cup {taskID} |->
                               IF t = taskID THEN "claim" ELSE wpc[t]]
               /\ lastStart' = [n |-> lastStart.n + 1, taskId |-> taskID, err |-> ""]
    /\ UNCHANGED <<alive, reading, pipeVars, scanVars>>

RunScanClaim_mut(t) ==
    /\ alive
    /\ t \in DOMAIN wpc
    /\ wpc[t] = "claim"
    /\ tasks' = [tasks EXCEPT ![t].status = StatusCompleted]
    /\ wpc' = [wpc EXCEPT ![t] = "progress"]
    /\ UNCHANGED <<lastStart, alive, reading, pipeVars, scanVars>>

\* runScan: m.mu.Lock(); task.Status = StatusRunning; m.mu.Unlock()
RunScanClaim(t) ==
    /\ alive
    /\ t \in DOMAIN wpc
    /\ wpc[t] = "claim"
    /\ tasks' = [tasks EXCEPT ![t].status = StatusRunning]
    /\ wpc' = [wpc EXCEPT ![t] = "progress"]
    /\ UNCHANGED <<lastStart, alive, reading, pipeVars, scanVars>>

\* runScan: m.mu.Lock(); task.Progress = 50.0; m.mu.Unlock()
RunScanProgress(t) ==
    /\ alive
    /\ t \in DOMAIN wpc
    /\ wpc[t] = "progress"
    /\ tasks' = [tasks EXCEPT ![t].progress = 50]
    /\ wpc' = [wpc EXCEPT ![t] = "scan"]
    /\ UNCHANGED <<lastStart, alive, reading, pipeVars, scanVars>>

\* runScan: m.scanner.RunFullScan(taskScannerConfig).  RunFullScan returns
\* nothing; when ProcessDirectory fails it calls log.Fatalf, which ends the
\* process with the task still running.
RunScanCallScanner(t) ==
    /\ alive
    /\ t \in DOMAIN wpc
    /\ wpc[t] = "scan"
    /\ IF ProcessDirectoryFails(tasks[t].scanPath)
       THEN /\ alive' = FALSE
            /\ UNCHANGED <<tasks, wpc, lastStart>>
       ELSE /\ wpc' = [wpc EXCEPT ![t] = "finish"]
            /\ UNCHANGED <<tasks, lastStart, alive>>
    /\ UNCHANGED <<reading, pipeVars, scanVars>>

\* runScan: m.mu.Lock(); Status = completed; Progress = 100; EndTime = &now
RunScanFinish(t) ==
    /\ alive
    /\ t \in DOMAIN wpc
    /\ wpc[t] = "finish"
    /\ tasks' = [tasks EXCEPT ![t].status = StatusCompleted,
                              ![t].progress = 100,
                              ![t].hasEndTime = TRUE]
    /\ wpc' = [wpc EXCEPT ![t] = "done"]
    /\ UNCHANGED <<lastStart, alive, reading, pipeVars, scanVars>>

runScan(t) ==
    \/ RunScanClaim(t)
    \/ RunScanProgress(t)
    \/ RunScanCallScanner(t)
    \/ RunScanFinish(t)

\* NewManager: an empty task table.
InitTask ==
    /\ TaskIdle
    /\ ScanIdle
    /\ fs = <<>>
    /\ fs0 = <<>>
    /\ pc = "idle"
    /\ healthyFiles = <<>>
    /\ PoolIdle
    /\ AggIdle

NextTask ==
    \/ \E path \in ScanPaths : StartNewScanTask(path)
    \/ \E t \in TaskIds : RunScanClaim(t)
    \/ \E t \in TaskIds : RunScanProgress(t)
    \/ \E t \in TaskIds : RunScanCallScanner(t)
    \/ \E t \in TaskIds : RunScanFinish(t)

SpecTask == InitTask /\ [][NextTask]_vars

\* Every started goroutine is eventually scheduled (the Go scheduler is fair).
FairSpecTask == SpecTask /\ \A t \in TaskIds : WF_vars(runScan(t))

\* ---- a status reader beside the scan worker ----
\* the critical section that ends runScan, one assignment at a time: the
\* other users of m.mu wait, a reader that holds the *Task does not
MuHeld == \E t \in DOMAIN wpc : wpc[t] \in {"finish progress", "finish end"}

\* runScan: m.mu.Lock(); task.Status = StatusCompleted
RunScanFinishStatus(t) ==
    /\ alive
    /\ t \in DOMAIN wpc
    /\ wpc[t] = "finish"
    /\ ~MuHeld
    /\ tasks' = [tasks EXCEPT ![t].status = StatusCompleted]
    /\ wpc' = [wpc EXCEPT ![t] = "finish progress"]
    /\ UNCHANGED <<lastStart, alive, reading, pipeVars, scanVars>>

\* runScan: task.Progress = 100
RunScanFinishProgress(t) ==
    /\ alive
    /\ t \in DOMAIN wpc
    /\ wpc[t] = "finish progress"
    /\ tasks' = [tasks EXCEPT ![t].progress = 100]
    /\ wpc' = [wpc EXCEPT ![t] = "finish end"]
    /\ UNCHANGED <<lastStart, alive, reading, pipeVars, scanVars>>

\* runScan: task.EndTime = &endTime; the deferred m.mu.Unlock()
RunScanFinishEndTime(t) ==
    /\ alive
    /\ t \in DOMAIN wpc
    /\ wpc[t] = "finish end"
    /\ tasks' = [tasks EXCEPT ![t].hasEndTime = TRUE]
    /\ wpc' = [wpc EXCEPT ![t] = "done"]
    /\ UNCHANGED <<lastStart, alive, reading, pipeVars, scanVars>>

\* the fields of Task that json.Marshal reads and runScan writes
TaskFields == {"status", "progress", "hasEndTime"}

\* the handler copies the fields of the task under the read lock
GetTaskStatus_mut(t) ==
    /\ alive
    /\ reading = <<>>
    /\ t \in DOMAIN tasks
    /\ ~MuHeld
    /\ reading' = [taskId |-> t, got |-> [f \in TaskFields |-> tasks[t][f]]]
    /\ UNCHANGED <<tasks, wpc, lastStart, alive, pipeVars, scanVars>>

\* HandleGetTaskStatus calls GetTaskStatus, which returns the *Task of the
\* table under m.mu.RLock()
GetTaskStatus(t) ==
    /\ alive
    /\ reading = <<>>
    /\ t \in DOMAIN tasks
    /\ ~MuHeld
    /\ reading' = [taskId |-> t, got |-> <<>>]
    /\ UNCHANGED <<tasks, wpc, lastStart, alive, pipeVars, scanVars>>

\* respondJSON: json.Marshal reads a field of the task without m.mu; the
\* reads race with the writes of runScan, so they come in no fixed order
ReadTaskField(f) ==
    /\ alive
    /\ reading # <<>>
    /\ f \notin DOMAIN reading.got
    /\ reading' = [reading EXCEPT !.got = (f :> tasks[reading.taskId][f]) @@ @]
    /\ UNCHANGED <<tasks, wpc, lastStart, alive, pipeVars, scanVars>>

\* respondJSON: the response is written
RespondTaskStatus ==
    /\ alive
    /\ reading # <<>>
    /\ DOMAIN reading.got = TaskFields
    /\ reading' = <<>>
    /\ UNCHANGED <<tasks, wpc, lastStart, alive, pipeVars, scanVars>>

NextStatus ==
    \/ \E path \in ScanPaths : ~MuHeld /\ StartNewScanTask(path)
    \/ \E t \in TaskIds : ~MuHeld /\ RunScanClaim(t)
    \/ \E t \in TaskIds : ~MuHeld /\ RunScanProgress(t)
    \/ \E t \in TaskIds : RunScanCallScanner(t)
    \/ \E t \in TaskIds : RunScanFinishStatus(t)
    \/ \E t \in TaskIds : RunScanFinishProgress(t)
    \/ \E t \in TaskIds : RunScanFinishEndTime(t)
    \/ \E t \in TaskIds : GetTaskStatus(t)
    \/ \E f \in TaskFields : ReadTaskField(f)
    \/ RespondTaskStatus

SpecStatus == InitTask /\ [][NextStatus]_vars

(***************************************************************************)
(* Claims about the task supervisor                                        *)
(***************************************************************************)

\* C1: single-flight: in every reachable state at most one task has status
\* running.
C1_SingleFlight ==
    Cardinality({t \in DOMAIN tasks : tasks[t].status = StatusRunning}) <= 1

\* C2: when some task is running, a StartNewScanTask call returns a conflict
\* error and no task id, creates no task, starts no worker and leaves the
\* task table unchanged.
C2_ConflictWhenRunning ==
    [][ (lastStart'.n # lastStart.n /\ \E t \in DOMAIN tasks : tasks[t].status = StatusRunning)
          => /\ lastStart'.err = "conflict"
             /\ lastStart'.taskId = 0
             /\ tasks' = tasks
             /\ wpc' = wpc ]_vars

\* A call has just been rejected while a task is running.
C2_Witness ==
    /\ lastStart.err = "conflict"
    /\ \E t \in DOMAIN tasks : tasks[t].status = StatusRunning

StatusEdges ==
    { <<StatusPending, StatusRunning>>,
      <<StatusRunning, StatusCompleted>>,
      <<StatusRunning, StatusFailed>> }

\* C3: a task is created pending, its status only changes along
\* pending -> running -> completed or failed, and a completed or failed
\* task never changes status again.
C3_StatusMachine ==
    [][ /\ \A t \in DOMAIN tasks' \ DOMAIN tasks : tasks'[t].status = StatusPending
        /\ \A t \in DOMAIN tasks :
              /\ t \in DOMAIN tasks'
              /\ \/ tasks'[t].status = tasks[t].status
                 \/ <<tasks[t].status, tasks'[t].status>> \in StatusEdges ]_vars

\* A task has gone all the way to completed while another is still pending.
C3_Witness ==
    /\ \E t \in DOMAIN tasks : tasks[t].status = StatusCompleted
    /\ \E t \in DOMAIN tasks : tasks[t].status = StatusPending

\* C4: every accepted task eventually reaches status completed with
\* progress 100 and an end time, and no task ever reaches status failed.
C4_EventuallyCompleted ==
    /\ \A t \in TaskIds :
          [](t \in DOMAIN tasks =>
                <>(/\ t \in DOMAIN tasks
                   /\ tasks[t].status = StatusCompleted
                   /\ tasks[t].progress = 100
                   /\ tasks[t].hasEndTime))
    /\ [](\A t \in DOMAIN tasks : tasks[t].status # StatusFailed)

\* the values the fields of a task have together at the moments of its
\* life, from NewTask to the end of runScan
TaskMoments ==
    { [status |-> StatusPending,   progress |-> 0,   hasEndTime |-> FALSE],
      [status |-> StatusRunning,   progress |-> 0,   hasEndTime |-> FALSE],
      [status |-> StatusRunning,   progress |-> 50,  hasEndTime |-> FALSE],
      [status |-> StatusCompleted, progress |-> 100, hasEndTime |-> TRUE] }

\* C39: a status reader never observes a torn task: when the handler has
\* read every field of the task GetTaskStatus gave it, the values read are
\* values the fields had together at one moment; in particular status
\* completed is never read with progress below 100 or without end time.
C39_NoTornRead ==
    (reading # <<>> /\ DOMAIN reading.got = TaskFields) =>
       /\ reading.got \in TaskMoments
       /\ reading.got["status"] = StatusCompleted =>
             reading.got["progress"] = 100 /\ reading.got["hasEndTime"]

====
